---- MODULE Spec2Model ----
(***************************************************************************)
(* Query / retrieval pipeline of the document research backend:           *)
(* DocumentFilter, CitationBuilder and QueryEngine.process_query /        *)
(* process_enhanced_query over the vector store and the LLM service.      *)
(*                                                                         *)
(* Encoding of Python values                                               *)
(*   str            a TLA+ string (Len, \o and SubSeq act as in Python)    *)
(*   None           the reserved string None, outside every other domain   *)
(*   float score    an integer number of tenths (5 stands for 0.5)         *)
(*   Optional list  a record [is_none, items]: None or a list/dict         *)
(*   dict           a sequence of <<key, value>> pairs in insertion order  *)
(*   filter value   a record tagged with its Python type in field "type"   *)
(***************************************************************************)
EXTENDS Integers, Sequences, FiniteSets, TLC

VARIABLES
    flt_chunks,       \* DocumentFilter.apply_filters: argument chunks
    flt_filters,      \* DocumentFilter.apply_filters: argument filters
    flt_result,       \* DocumentFilter.apply_filters: returned list
    flt_done,         \* apply_filters has returned
    cit_chunks,       \* CitationBuilder: argument chunks
    cit_vector_results, \* CitationBuilder.create_enhanced_citations: vector_results
    cit_kind,         \* "none" | "basic" | "enhanced": which builder ran
    cit_result,       \* CitationBuilder: returned citations
    index,            \* vector store: the stored passages with their score
                      \* for the query, in the order of the ranking
    pc,               \* position of the process_query / process_enhanced_query call
    method,           \* "process_query" | "process_enhanced_query"
    query,            \* argument query
    filters,          \* argument filters
    selected_document_ids,  \* argument selected_document_ids
    scored_results,   \* what similarity_search_with_score returned
    raw_results,      \* what similarity_search returned
    chunks,           \* local chunks
    filtered_chunks,  \* local filtered_chunks
    answer,           \* local answer
    response,         \* the returned response, NoneRecord until the return
    retriever_calls,  \* number of similarity_search invocations
    llm_calls,        \* arguments of the answer_query invocations, in order
    failed,           \* the collaborators that raised during the call
    th_pc,            \* position of the theme-extraction call
    th_method,        \* "extract_themes" | "extract_themes_for_document" |
                      \* "extract_all_themes"
    th_query,         \* extract_themes: argument query
    th_filters,       \* extract_themes: argument filters
    th_document_id,   \* extract_themes_for_document: argument document_id
    th_total_documents, \* extract_all_themes: len(all_docs["documents"])
    th_candidates,    \* filtered_chunks / chunks / sample_chunks
    th_themes_data,   \* what LLMService.extract_themes returned
    th_response,      \* the returned ThemeResponse, NoneRecord until the return
    th_llm_calls,     \* arguments of the extract_themes invocations of the LLM
    sd_pc,            \* position of the search_documents calls
    sd_request,       \* argument search_request of the last call
    sd_listing,       \* local all_documents of the last call
    sd_filtered_documents,  \* local filtered_documents of the last call, sorted
    sd_response,      \* what the last call returned, NoneRecord until a return
    sd_session,       \* the calls so far asked for pages 1, 2, ... of one request
    sd_collected,     \* documents of the pages returned so far, in order
    engine,           \* the attributes of the QueryEngine instance
    store,            \* DatabaseService: processing_status saved per document id
    dp_pc,            \* position of the process_document call
    dp_document,      \* process_document: local document, NoneRecord before it
    dp_attempted,     \* process_document has invoked index_document
    dp_deleted,       \* ids for which delete_document has returned True
    ix_pc,            \* position of the index_document call
    ix_caller,        \* "process_document" | "direct": who awaits index_document
    ix_docs,          \* index_document: local langchain_docs
    ix_i,             \* index_document: loop variable i of the batch loop
    ix_success        \* index_document: local success, the returned value

fltVars == <<flt_chunks, flt_filters, flt_result, flt_done>>
citVars == <<cit_chunks, cit_vector_results, cit_kind, cit_result>>
pipeVars == <<index, pc, method, query, filters, selected_document_ids,
              scored_results, raw_results, chunks, filtered_chunks, answer,
              response, retriever_calls, llm_calls, failed>>
thVars == <<th_pc, th_method, th_query, th_filters, th_document_id,
            th_total_documents, th_candidates, th_themes_data, th_response,
            th_llm_calls>>
sdVars == <<sd_pc, sd_request, sd_listing, sd_filtered_documents, sd_response,
            sd_session, sd_collected>>
ixVars == <<ix_pc, ix_caller, ix_docs, ix_i, ix_success>>
dpVars == <<store, dp_pc, dp_document, dp_attempted, dp_deleted>>
docVars == <<engine, store, dp_pc, dp_document, dp_attempted, dp_deleted,
             ix_pc, ix_caller, ix_docs, ix_i, ix_success>>
vars == <<flt_chunks, flt_filters, flt_result, flt_done,
          cit_chunks, cit_vector_results, cit_kind, cit_result,
          index, pc, method, query, filters, selected_document_ids,
          scored_results, raw_results, chunks, filtered_chunks, answer,
          response, retriever_calls, llm_calls, failed,
          th_pc, th_method, th_query, th_filters, th_document_id,
          th_total_documents, th_candidates, th_themes_data, th_response,
          th_llm_calls,
          sd_pc, sd_request, sd_listing, sd_filtered_documents, sd_response,
          sd_session, sd_collected,
          engine, store, dp_pc, dp_document, dp_attempted, dp_deleted,
          ix_pc, ix_caller, ix_docs, ix_i, ix_success>>

-----------------------------------------------------------------------------
(* Bounds *)

MaxPassages == 2
MaxFilterKeys == 2
MaxCitations == 2
MaxContentLen == 202
MaxIndexed == 3

-----------------------------------------------------------------------------
(* Python values *)

None == "<None>"

\* Python truthiness of an Optional[str]: None and "" are falsy
Truthy(v) == v # None /\ v # ""

NoneList == [is_none |-> TRUE, items |-> <<>>]
SomeList(s) == [is_none |-> FALSE, items |-> s]

\* None where a record is expected
NoneRecord == [none |-> TRUE]

\* truthiness of an Optional list or dict: None and the empty one are falsy
TruthyList(l) == ~l.is_none /\ Len(l.items) > 0

\* x in list
InList(x, s) == \E i \in 1..Len(s) : s[i] = x

\* code-point order of the characters that occur in the compared strings
CharOrder ==
    " -.0123456789:ABCDEFGHIJKLMNOPQRSTUVWXYZ_abcdefghijklmnopqrstuvwxyz"

\* ord(c) of every character of the compared strings, up to the offset
OrdTable ==
    [c \in { SubSeq(CharOrder, i, i) : i \in 1..Len(CharOrder) } |->
        CHOOSE i \in 1..Len(CharOrder) : SubSeq(CharOrder, i, i) = c]

Ord(c) == OrdTable[c]

\* a < b on Python str: lexicographic by code point, a proper prefix is less
RECURSIVE StrLess(_, _)
StrLess(a, b) ==
    IF b = "" THEN FALSE
    ELSE IF a = "" THEN TRUE
    ELSE LET ca == SubSeq(a, 1, 1)
             cb == SubSeq(b, 1, 1)
         IN  IF ca = cb
             THEN StrLess(SubSeq(a, 2, Len(a)), SubSeq(b, 2, Len(b)))
             ELSE Ord(ca) < Ord(cb)

\* dict.get(key, default) on a metadata mapping
Get(md, key, default) == IF key \in DOMAIN md THEN md[key] ELSE default

-----------------------------------------------------------------------------
(* Passages *)

\* schemas.DocumentChunk
DocumentChunk(content, metadata, similarity_score) ==
    [content |-> content, metadata |-> metadata,
     similarity_score |-> similarity_score]

\* the metadata mapping VectorStoreService._create_chunks attaches to a chunk
ChunkMetadata(doc, page_number, paragraph_number) ==
    [doc_id |-> doc.id,
     filename |-> doc.filename,
     page_number |-> page_number,
     paragraph_number |-> paragraph_number,
     position |-> [page |-> page_number, rect |-> <<0, 0, 10, 10>>],
     author |-> doc.author,
     document_date |-> doc.document_date,
     document_type |-> doc.document_type]

\* author: first "_"-separated part of a filename of at least three parts
\* document_date: the first dddd-dd-dd in the filename, else None
\* document_type: the filename's extension
DocA == [id |-> "doc-A", filename |-> "alice_report_2024-01-05.pdf",
         author |-> "alice", document_date |-> "2024-01-05",
         document_type |-> "pdf"]
DocB == [id |-> "doc-B", filename |-> "notes.png",
         author |-> None, document_date |-> None,
         document_type |-> "png"]
DocC == [id |-> "doc-C", filename |-> "bob_memo_2024-03-01.pdf",
         author |-> "bob", document_date |-> "2024-03-01",
         document_type |-> "pdf"]
DocD == [id |-> "doc-D", filename |-> "alice_plan_2024-02-10.pdf",
         author |-> "alice", document_date |-> "2024-02-10",
         document_type |-> "pdf"]

\* a payload that was not written by _create_chunks: no doc_id, no date
ForeignMetadata ==
    [filename |-> "foreign.txt", page_number |-> 1, paragraph_number |-> 0,
     position |-> [page |-> 1, rect |-> <<0, 0, 5, 5>>]]

FilterPool ==
    { DocumentChunk("refunds within 30 days", ChunkMetadata(DocA, 1, 0), 7),
      DocumentChunk("refund policy overview", ChunkMetadata(DocA, 1, 1), 5),
      DocumentChunk("scanned note", ChunkMetadata(DocB, 1, 0), 3),
      DocumentChunk("memo on returns", ChunkMetadata(DocC, 2, 0), 5),
      DocumentChunk("memo appendix", ChunkMetadata(DocC, 3, 0), 0),
      DocumentChunk("plan for refunds", ChunkMetadata(DocD, 1, 0), 3),
      DocumentChunk("foreign text", ForeignMetadata, 7) }

\* all sequences over S of length at most n
SeqsUpTo(S, n) == UNION { [1..k -> S] : k \in 0..n }

-----------------------------------------------------------------------------
(* Filter specifications *)

NumValue(n) == [type |-> "num", num |-> n]
StrValue(s) == [type |-> "str", str |-> s]
ListValue(s) == [type |-> "list", items |-> s]
\* a date_range dict; a missing key reads as None through dict.get
DictValue(start, end) == [type |-> "dict", start |-> start, end |-> end]

FilterPairs ==
    { <<"date_range", DictValue("2024-01-05", "2024-02-10")>>,
      <<"date_range", DictValue("2024-02-10", None)>>,
      <<"date_range", DictValue("", "2024-02-10")>>,
      <<"date_range", DictValue("2024-02", "")>>,
      <<"date_range", DictValue(None, None)>>,
      <<"date_range", StrValue("2024-02-10")>>,
      <<"relevance_threshold", NumValue(5)>>,
      <<"relevance_threshold", NumValue(0)>>,
      <<"relevance_threshold", StrValue("0.5")>>,
      <<"document_ids", ListValue(<<"doc-A", "doc-C">>)>>,
      <<"document_ids", ListValue(<<>>)>>,
      <<"author", StrValue("alice")>>,
      <<"author", ListValue(<<"alice", "bob">>)>>,
      <<"category", StrValue("finance")>> }

\* dicts: the keys of a dict are distinct
IsDict(items) ==
    \A i, j \in 1..Len(items) : items[i][1] = items[j][1] => i = j

FilterSpecs ==
    {NoneList} \cup
    { SomeList(items) : items \in { s \in SeqsUpTo(FilterPairs, MaxFilterKeys) : IsDict(s) } }

-----------------------------------------------------------------------------
(* DocumentFilter *)

\* _check_date_range with an exclusive upper bound
_check_date_range_ExclusiveEnd(chunk, date_range) ==
    LET doc_date == Get(chunk.metadata, "document_date", None)
        start_date == date_range.start
        end_date == date_range.end
    IN  IF ~Truthy(doc_date) THEN TRUE
        ELSE IF Truthy(start_date) /\ StrLess(doc_date, start_date) THEN FALSE
        ELSE IF Truthy(end_date) /\ ~StrLess(doc_date, end_date) THEN FALSE
        ELSE TRUE

\* DocumentFilter._check_date_range
_check_date_range(chunk, date_range) ==
    LET doc_date == Get(chunk.metadata, "document_date", None)
        start_date == date_range.start
        end_date == date_range.end
    IN  IF ~Truthy(doc_date) THEN TRUE
        ELSE IF Truthy(start_date) /\ StrLess(doc_date, start_date) THEN FALSE
        ELSE IF Truthy(end_date) /\ StrLess(end_date, doc_date) THEN FALSE
        ELSE TRUE

\* _check_metadata_filter comparing with the first item of a list only
_check_metadata_filter_FirstItemOnly(metadata_value, filter_value) ==
    IF filter_value.type = "list"
    THEN filter_value.items # <<>> /\ metadata_value = filter_value.items[1]
    ELSE IF filter_value.type = "str"
    THEN metadata_value = filter_value.str
    ELSE FALSE

\* DocumentFilter._check_metadata_filter. The metadata values the generic
\* keys of FilterPairs meet are str or None, so a filter value that is
\* neither a list nor a str is equal to none of them
_check_metadata_filter(metadata_value, filter_value) ==
    IF filter_value.type = "list"
    THEN InList(metadata_value, filter_value.items)
    ELSE IF filter_value.type = "str"
    THEN metadata_value = filter_value.str
    ELSE FALSE

\* KeyPasses with the threshold test similarity_score <= value
KeyPasses_StrictThreshold(chunk, key, value) ==
    IF key = "date_range" /\ value.type = "dict"
    THEN _check_date_range(chunk, value)
    ELSE IF key = "relevance_threshold" /\ value.type = "num"
    THEN ~(chunk.similarity_score <= value.num)
    ELSE IF key = "document_ids" /\ value.type = "list"
    THEN InList(Get(chunk.metadata, "doc_id", None), value.items)
    ELSE IF key \in DOMAIN chunk.metadata
    THEN _check_metadata_filter(chunk.metadata[key], value)
    ELSE TRUE

\* one iteration of the loop of _should_include_chunk: TRUE when the pair
\* <<key, value>> does not reject the chunk
KeyPasses(chunk, key, value) ==
    IF key = "date_range" /\ value.type = "dict"
    THEN _check_date_range(chunk, value)
    ELSE IF key = "relevance_threshold" /\ value.type = "num"
    THEN ~(chunk.similarity_score < value.num)
    ELSE IF key = "document_ids" /\ value.type = "list"
    THEN InList(Get(chunk.metadata, "doc_id", None), value.items)
    ELSE IF key \in DOMAIN chunk.metadata
    THEN _check_metadata_filter(chunk.metadata[key], value)
    ELSE TRUE

\* DocumentFilter._should_include_chunk: the loop over filters.items() from
\* position i on, returning False at the first pair that rejects
RECURSIVE ShouldIncludeFrom(_, _, _)
RECURSIVE FilterFrom(_, _, _)

\* ShouldIncludeFrom returning after the first pair it looks at
ShouldIncludeFrom_FirstKeyOnly(chunk, items, i) ==
    IF i > Len(items) THEN TRUE
    ELSE KeyPasses(chunk, items[i][1], items[i][2])

ShouldIncludeFrom(chunk, items, i) ==
    IF i > Len(items) THEN TRUE
    ELSE IF ~KeyPasses(chunk, items[i][1], items[i][2]) THEN FALSE
    ELSE ShouldIncludeFrom(chunk, items, i + 1)

_should_include_chunk(chunk, fs) == ShouldIncludeFrom(chunk, fs.items, 1)

\* FilterFrom inserting each kept chunk at the front of the list
RECURSIVE FilterFrom_Prepend(_, _, _)
FilterFrom_Prepend(cs, fs, i) ==
    IF i > Len(cs) THEN <<>>
    ELSE FilterFrom_Prepend(cs, fs, i + 1) \o
         (IF _should_include_chunk(cs[i], fs)
          THEN <<cs[i]>> ELSE <<>>)

\* DocumentFilter.apply_filters: the loop over chunks from position i on
FilterFrom(cs, fs, i) ==
    IF i > Len(cs) THEN <<>>
    ELSE (IF _should_include_chunk(cs[i], fs)
          THEN <<cs[i]>> ELSE <<>>) \o FilterFrom(cs, fs, i + 1)

\* apply_filters returning an empty list when there is no filter
apply_filters_EmptyWithoutFilters(cs, fs) ==
    IF ~TruthyList(fs) THEN <<>>
    ELSE FilterFrom(cs, fs, 1)

apply_filters(cs, fs) ==
    IF ~TruthyList(fs) THEN cs
    ELSE FilterFrom(cs, fs, 1)

-----------------------------------------------------------------------------
(* Specification of the filter: the arguments are drawn, then it is applied *)

\* QueryEngine.__init__: the collaborators handed in, a new CitationBuilder
\* and a new DocumentFilter
EngineRefs ==
    [vector_store |-> "vector_store", llm_service |-> "llm_service",
     citation_builder |-> "CitationBuilder", document_filter |-> "DocumentFilter"]

\* no call of index_document is in progress
IxIdle ==
    /\ ix_pc = "idle"
    /\ ix_caller = None
    /\ ix_docs = <<>>
    /\ ix_i = 0
    /\ ix_success = TRUE

\* a constructed engine, an empty document store, no document being processed
DocIdle ==
    /\ engine = EngineRefs
    /\ store = <<>>
    /\ dp_pc = "idle"
    /\ dp_document = NoneRecord
    /\ dp_attempted = FALSE
    /\ dp_deleted = {}
    /\ IxIdle

\* no theme extraction is in progress
ThIdle ==
    /\ th_pc = "idle"
    /\ th_method = None
    /\ th_query = None
    /\ th_filters = NoneList
    /\ th_document_id = None
    /\ th_total_documents = 0
    /\ th_candidates = <<>>
    /\ th_themes_data = <<>>
    /\ th_response = NoneRecord
    /\ th_llm_calls = <<>>

\* no document search is in progress
SdIdle ==
    /\ sd_pc = "idle"
    /\ sd_request = NoneRecord
    /\ sd_listing = <<>>
    /\ sd_filtered_documents = <<>>
    /\ sd_response = NoneRecord
    /\ sd_session = FALSE
    /\ sd_collected = <<>>

\* no process_query / process_enhanced_query call is in progress
CallIdle ==
    /\ pc = "idle"
    /\ method = None
    /\ query = None
    /\ filters = NoneList
    /\ selected_document_ids = NoneList
    /\ scored_results = <<>>
    /\ raw_results = <<>>
    /\ chunks = <<>>
    /\ filtered_chunks = <<>>
    /\ answer = None
    /\ response = NoneRecord
    /\ retriever_calls = 0
    /\ llm_calls = <<>>
    /\ failed = {}

\* an empty index and no call of the query engine in progress
PipeIdle ==
    /\ index = <<>>
    /\ pc = "idle"
    /\ method = None
    /\ query = None
    /\ filters = NoneList
    /\ selected_document_ids = NoneList
    /\ scored_results = <<>>
    /\ raw_results = <<>>
    /\ chunks = <<>>
    /\ filtered_chunks = <<>>
    /\ answer = None
    /\ response = NoneRecord
    /\ retriever_calls = 0
    /\ llm_calls = <<>>
    /\ failed = {}
    /\ ThIdle
    /\ SdIdle
    /\ DocIdle

CitIdle ==
    /\ cit_chunks = <<>>
    /\ cit_vector_results = <<>>
    /\ cit_kind = "none"
    /\ cit_result = <<>>

InitFilter ==
    /\ flt_chunks \in SeqsUpTo(FilterPool, MaxPassages)
    /\ flt_filters \in FilterSpecs
    /\ flt_result = <<>>
    /\ flt_done = FALSE
    /\ CitIdle
    /\ PipeIdle

ApplyFilters ==
    /\ ~flt_done
    /\ flt_result' = apply_filters(flt_chunks, flt_filters)
    /\ flt_done' = TRUE
    /\ UNCHANGED <<flt_chunks, flt_filters>>
    /\ UNCHANGED citVars
    /\ UNCHANGED <<pipeVars, thVars, sdVars, docVars>>

NextFilter == ApplyFilters

SpecFilter == InitFilter /\ [][NextFilter]_vars

-----------------------------------------------------------------------------
(* Properties of DocumentFilter *)

IsIncreasing(idx) == \A i, j \in DOMAIN idx : i < j => idx[i] < idx[j]

\* r is a sub-sequence of s: the elements of r are elements of s, taken at
\* strictly increasing positions
IsSubSeq(r, s) ==
    \E idx \in [1..Len(r) -> 1..Len(s)] :
        IsIncreasing(idx) /\ \A i \in 1..Len(r) : r[i] = s[idx[i]]

\* C1: the list apply_filters returns is a sub-sequence of its argument:
\* every returned passage is an unaltered element of the argument, none is
\* duplicated, and the original relative order is kept.
C1_ResultIsSubSequence ==
    flt_done => IsSubSeq(flt_result, flt_chunks)

C1_Witness ==
    /\ flt_done
    /\ TruthyList(flt_filters)
    /\ Len(flt_chunks) = 2
    /\ flt_chunks[1] # flt_chunks[2]
    /\ flt_result = flt_chunks

\* C2: with filters None or {} the result equals the argument list.
C2_EmptySpecIsIdentity ==
    (flt_done /\ ~TruthyList(flt_filters)) => flt_result = flt_chunks

C2_Witness ==
    /\ flt_done
    /\ flt_filters = SomeList(<<>>)
    /\ Len(flt_chunks) = 2
    /\ flt_result = flt_chunks

\* the spec {relevance_threshold: t} with t numeric
OnlyThreshold(fs) ==
    /\ ~fs.is_none
    /\ Len(fs.items) = 1
    /\ fs.items[1][1] = "relevance_threshold"
    /\ fs.items[1][2].type = "num"

ScoreAtLeast(s, t) == SelectSeq(s, LAMBDA p : p.similarity_score >= t)

\* C3: under {relevance_threshold: t} the result is exactly the passages with
\* similarity_score >= t, the boundary score t included.
C3_ThresholdInclusive ==
    (flt_done /\ OnlyThreshold(flt_filters)) =>
        flt_result = ScoreAtLeast(flt_chunks, flt_filters.items[1][2].num)

C3_Witness ==
    /\ flt_done
    /\ OnlyThreshold(flt_filters)
    /\ Len(flt_chunks) = 2
    /\ flt_chunks[1].similarity_score < flt_filters.items[1][2].num
    /\ flt_chunks[2].similarity_score = flt_filters.items[1][2].num
    /\ flt_result = <<flt_chunks[2]>>

\* the passage survives the single-key spec {key: value} taken alone
SurvivesAlone(p, pair) == apply_filters(<<p>>, SomeList(<<pair>>)) = <<p>>

SurvivesEach(s, items) ==
    SelectSeq(s, LAMBDA p : \A i \in 1..Len(items) : SurvivesAlone(p, items[i]))

\* the orders in which the keys of a dict can be iterated
\* the orders of n keys, for every n up to MaxFilterKeys
AllKeyOrders ==
    [n \in 0..MaxFilterKeys |->
        { pi \in [1..n -> 1..n] : \A i, j \in 1..n : pi[i] = pi[j] => i = j }]

KeyOrders(items) == AllKeyOrders[Len(items)]

Reordered(items, pi) == [i \in 1..Len(items) |-> items[pi[i]]]

\* C4: the keys are AND-ed independently: the result is the passages that
\* survive every single-key spec alone, whatever the order of the keys.
C4_KeysAreAndedIndependently ==
    (flt_done /\ ~flt_filters.is_none) =>
        /\ flt_result = SurvivesEach(flt_chunks, flt_filters.items)
        /\ \A pi \in KeyOrders(flt_filters.items) :
             apply_filters(flt_chunks,
                           SomeList(Reordered(flt_filters.items, pi))) = flt_result

C4_Witness ==
    /\ flt_done
    /\ ~flt_filters.is_none
    /\ Len(flt_filters.items) = 2
    /\ Len(flt_chunks) = 2
    /\ SurvivesAlone(flt_chunks[1], flt_filters.items[1])
    /\ ~SurvivesAlone(flt_chunks[1], flt_filters.items[2])
    /\ ~SurvivesAlone(flt_chunks[2], flt_filters.items[1])
    /\ SurvivesAlone(flt_chunks[2], flt_filters.items[2])
    /\ flt_result = <<>>

\* the spec {date_range: {start, end}}
OnlyDateRange(fs) ==
    /\ ~fs.is_none
    /\ Len(fs.items) = 1
    /\ fs.items[1][1] = "date_range"
    /\ fs.items[1][2].type = "dict"

\* a bound is given when it is neither None nor the empty string
DateRangeKeeps(p, range) ==
    LET d == Get(p.metadata, "document_date", None)
    IN  \/ d = None
        \/ /\ Truthy(range.start) => ~StrLess(d, range.start)
           /\ Truthy(range.end) => ~StrLess(range.end, d)

\* C5: under an active date_range a passage without document_date is kept,
\* and a dated passage is kept iff start <= d (start given) and d <= end
\* (end given) in string order, both bounds inclusive.
C5_DateRangeInclusive ==
    (flt_done /\ OnlyDateRange(flt_filters)) =>
        flt_result = SelectSeq(flt_chunks,
                               LAMBDA p : DateRangeKeeps(p, flt_filters.items[1][2]))

C5_Witness ==
    /\ flt_done
    /\ OnlyDateRange(flt_filters)
    /\ Truthy(flt_filters.items[1][2].start)
    /\ Truthy(flt_filters.items[1][2].end)
    /\ Len(flt_chunks) = 2
    /\ Get(flt_chunks[1].metadata, "document_date", None) = None
    /\ Get(flt_chunks[2].metadata, "document_date", None) # None
    /\ flt_result = <<flt_chunks[1]>>

\* the keys that _should_include_chunk treats by their own rule
SpecialKeys == {"date_range", "relevance_threshold", "document_ids"}

\* the passage p is not rejected by the pair of a generic key: its metadata
\* lacks the key, or the value under the key is a member of a list value,
\* or equal to a value that is no list
GenericAccepts(p, pair) ==
    pair[1] \in DOMAIN p.metadata =>
        IF pair[2].type = "list"
        THEN \E i \in 1..Len(pair[2].items) :
                 pair[2].items[i] = p.metadata[pair[1]]
        ELSE pair[2].type = "str" /\ p.metadata[pair[1]] = pair[2].str

\* C24: a kept passage is accepted by every pair of a generic key, and under
\* a specification of generic keys only the result is exactly the passages
\* that every pair accepts: a passage without the key is never rejected, a
\* passage with the key is kept iff its value is a member of a list value or
\* equal to another value.
C24_GenericKeysMatchByMembershipOrEquality ==
    (flt_done /\ TruthyList(flt_filters)) =>
        LET pairs == flt_filters.items
            generic == { i \in 1..Len(pairs) : pairs[i][1] \notin SpecialKeys }
        IN  /\ \A k \in 1..Len(flt_result) : \A i \in generic :
                  GenericAccepts(flt_result[k], pairs[i])
            /\ generic = 1..Len(pairs) =>
                  flt_result =
                      SelectSeq(flt_chunks, LAMBDA p :
                          \A i \in generic : GenericAccepts(p, pairs[i]))

\* a list-valued author filter has kept the passage of an author that is
\* listed second and rejected a passage whose author is None
C24_Witness ==
    /\ flt_done
    /\ flt_filters = SomeList(<< <<"author", ListValue(<<"alice", "bob">>)>> >>)
    /\ Len(flt_chunks) = 2
    /\ Len(flt_result) = 1
    /\ flt_result[1].metadata.author = "bob"
    /\ \E k \in 1..Len(flt_chunks) :
          /\ "author" \in DOMAIN flt_chunks[k].metadata
          /\ flt_chunks[k].metadata.author = None

-----------------------------------------------------------------------------
(* CitationBuilder *)

\* default of the parameter max_length of CitationBuilder._create_snippet
max_length == 200

\* _create_snippet cutting contents of max_length characters too
_create_snippet_CutAtEqual(content) ==
    IF Len(content) >= max_length
    THEN SubSeq(content, 1, max_length) \o "..."
    ELSE content

\* _create_snippet appending the ellipsis without cutting the content
_create_snippet_NoCut(content) ==
    IF Len(content) > max_length
    THEN content \o "..."
    ELSE content

\* CitationBuilder._create_snippet
_create_snippet(content) ==
    IF Len(content) > max_length
    THEN SubSeq(content, 1, max_length) \o "..."
    ELSE content

\* schemas.Citation as CitationBuilder fills it; the offsets keep their
\* default None
Citation(chunk) ==
    [doc_id |-> Get(chunk.metadata, "doc_id", "Unknown"),
     document_name |-> Get(chunk.metadata, "filename", "Unknown"),
     page_number |-> Get(chunk.metadata, "page_number", None),
     paragraph_number |-> Get(chunk.metadata, "paragraph_number", None),
     content_snippet |-> _create_snippet(chunk.content),
     position_rect |-> IF "position" \in DOMAIN chunk.metadata
                       THEN chunk.metadata["position"].rect
                       ELSE None,
     start_offset |-> None,
     end_offset |-> None]

\* schemas.EmbeddingInfo as create_enhanced_citations fills it
EmbeddingInfo(result) ==
    [vector_id |-> ToString(result.id),
     similarity_score |-> result.score,
     dimension |-> 768,
     model_name |-> "embedding-model"]

\* schemas.EnhancedCitation: a Citation plus embedding_info
EnhancedCitation(chunk, embedding_info) ==
    [f \in (DOMAIN Citation(chunk)) \cup {"embedding_info"} |->
        IF f = "embedding_info" THEN embedding_info ELSE Citation(chunk)[f]]

\* create_basic_citations building the list from the last chunk to the first
create_basic_citations_Reversed(cs) ==
    [i \in 1..Len(cs) |-> Citation(cs[Len(cs) + 1 - i])]

\* CitationBuilder.create_basic_citations
create_basic_citations(cs) ==
    [i \in 1..Len(cs) |-> Citation(cs[i])]

\* create_enhanced_citations leaving the last scored result unused
create_enhanced_citations_DropsLast(cs, vector_results) ==
    [i \in 1..Len(cs) |->
        EnhancedCitation(cs[i],
                         IF i < Len(vector_results)
                         THEN EmbeddingInfo(vector_results[i])
                         ELSE NoneRecord)]

\* CitationBuilder.create_enhanced_citations; i is the 1-based position, so
\* the code's i < len(vector_results) reads i <= Len(vector_results)
create_enhanced_citations(cs, vector_results) ==
    [i \in 1..Len(cs) |->
        EnhancedCitation(cs[i],
                         IF i <= Len(vector_results)
                         THEN EmbeddingInfo(vector_results[i])
                         ELSE NoneRecord)]

\* a long text in which no two windows of max_length characters that start
\* at different offsets below 7 agree (224 characters)
TextAlphabet == "abcdefg"
Twice(t) == t \o t
LongText == Twice(Twice(Twice(Twice(Twice(TextAlphabet)))))

\* the content of n characters
MakeText(n) == SubSeq(LongText, 1, n)

\* one chunk for every content length
LengthPool ==
    { DocumentChunk(MakeText(n), ChunkMetadata(DocA, 1, 0), 0) :
        n \in 0..MaxContentLen }

\* chunks around the cut, with and without the metadata of _create_chunks
BoundaryPool ==
    { DocumentChunk(MakeText(n), md, 0) :
        n \in {0, max_length, max_length + 1},
        md \in {ChunkMetadata(DocC, 2, 0), ForeignMetadata} }

CitationInputs ==
    { <<c>> : c \in LengthPool } \cup SeqsUpTo(BoundaryPool, MaxCitations)

\* scored results of the vector store
VectorResults == { [id |-> 11, score |-> 7], [id |-> 12, score |-> 3] }

FltIdle ==
    /\ flt_chunks = <<>>
    /\ flt_filters = NoneList
    /\ flt_result = <<>>
    /\ flt_done = FALSE

InitCitation ==
    /\ cit_chunks \in CitationInputs
    /\ cit_vector_results \in SeqsUpTo(VectorResults, MaxCitations)
    /\ cit_kind = "none"
    /\ cit_result = <<>>
    /\ FltIdle
    /\ PipeIdle

CreateBasicCitations ==
    /\ cit_kind = "none"
    /\ cit_result' = create_basic_citations(cit_chunks)
    /\ cit_kind' = "basic"
    /\ UNCHANGED <<cit_chunks, cit_vector_results>>
    /\ UNCHANGED fltVars
    /\ UNCHANGED <<pipeVars, thVars, sdVars, docVars>>

CreateEnhancedCitations ==
    /\ cit_kind = "none"
    /\ cit_result' = create_enhanced_citations(cit_chunks, cit_vector_results)
    /\ cit_kind' = "enhanced"
    /\ UNCHANGED <<cit_chunks, cit_vector_results>>
    /\ UNCHANGED fltVars
    /\ UNCHANGED <<pipeVars, thVars, sdVars, docVars>>

NextCitation == CreateBasicCitations \/ CreateEnhancedCitations

SpecCitation == InitCitation /\ [][NextCitation]_vars

-----------------------------------------------------------------------------
(* Properties of CitationBuilder *)

CitationsBuilt == cit_kind # "none"

\* C6: the snippet of a content c is c when len(c) <= 200 and the first 200
\* characters of c followed by "..." when len(c) > 200.
C6_SnippetCutAtExactly200 ==
    CitationsBuilt =>
        /\ Len(cit_result) = Len(cit_chunks)
        /\ \A i \in 1..Len(cit_chunks) :
             LET c == cit_chunks[i].content
                 snippet == cit_result[i].content_snippet
             IN  /\ Len(c) <= 200 => snippet = c
                 /\ Len(c) > 200 => snippet = SubSeq(c, 1, 200) \o "..."

C6_Witness ==
    /\ CitationsBuilt
    /\ Len(cit_chunks) = 2
    /\ Len(cit_chunks[1].content) = 200
    /\ Len(cit_chunks[2].content) = 201
    /\ cit_result[1].content_snippet = cit_chunks[1].content
    /\ cit_result[2].content_snippet = SubSeq(cit_chunks[2].content, 1, 200) \o "..."

\* C7 as stated: every citation's snippet has at most 200 characters.
C7_SnippetAtMost200 ==
    CitationsBuilt =>
        \A i \in 1..Len(cit_result) : Len(cit_result[i].content_snippet) <= 200

\* C7 as amended: every citation's snippet has at most 203 characters, at
\* most 200 characters of the content and, when the content was cut, the
\* three characters "...".
C7_SnippetAtMost203 ==
    CitationsBuilt =>
        \A i \in 1..Len(cit_result) :
            LET snippet == cit_result[i].content_snippet
            IN  /\ Len(snippet) <= 203
                /\ Len(snippet) > 200 =>
                     /\ SubSeq(snippet, 201, Len(snippet)) = "..."
                     /\ Len(cit_chunks[i].content) > 200

C7_Witness ==
    /\ cit_kind = "enhanced"
    /\ Len(cit_result) = 1
    /\ Len(cit_chunks[1].content) = MaxContentLen
    /\ Len(cit_result[1].content_snippet) = 203

-----------------------------------------------------------------------------
(* VectorStoreService and LLMService as the query engine uses them *)

\* k of the similarity search of process_query / process_enhanced_query
K == 10

\* langchain Document
Document(page_content, metadata) ==
    [page_content |-> page_content, metadata |-> metadata]

\* a stored passage with the score the index gives it for the query
Scored(content, metadata, score) ==
    [doc |-> Document(content, metadata), score |-> score]

IndexPool ==
    { Scored("refunds within 30 days", ChunkMetadata(DocA, 1, 0), 7),
      Scored("refund policy overview", ChunkMetadata(DocA, 1, 1), 6),
      Scored("memo on returns", ChunkMetadata(DocC, 2, 0), 5),
      Scored("foreign text", ForeignMetadata, 4),
      Scored("scanned note", ChunkMetadata(DocB, 1, 0), 3) }

\* the ranking of the index: distinct stored passages, best score first
IsRanking(s) ==
    /\ \A i, j \in 1..Len(s) : i < j => s[i].score > s[j].score

IndexStates == { s \in SeqsUpTo(IndexPool, MaxIndexed) : IsRanking(s) }

\* Qdrant.similarity_search_with_score(query, k): the k best of the ranking
similarity_search_with_score(stored, k) ==
    SubSeq(stored, 1, IF Len(stored) < k THEN Len(stored) ELSE k)

\* VectorStoreService.similarity_search: [doc for doc, _ in results]
DocsOf(results) == [i \in 1..Len(results) |-> results[i].doc]

\* what LLMService.answer_query can return
Answers == { "Refunds are accepted within 30 days.", "" }

Queries == { "refund policy" }

-----------------------------------------------------------------------------
(* QueryEngine *)

\* QueryEngine._convert_to_document_chunks from position i on: a langchain
\* Document becomes a chunk of score 0.0, a chunk is kept, anything else is
\* skipped
RECURSIVE ConvertFrom(_, _)
ConvertFrom(langchain_docs, i) ==
    IF i > Len(langchain_docs) THEN <<>>
    ELSE LET doc == langchain_docs[i]
         IN  (IF "page_content" \in DOMAIN doc
              THEN <<DocumentChunk(doc.page_content, doc.metadata, 0)>>
              ELSE IF "content" \in DOMAIN doc
              THEN <<doc>>
              ELSE <<>>) \o ConvertFrom(langchain_docs, i + 1)

_convert_to_document_chunks(langchain_docs) == ConvertFrom(langchain_docs, 1)

\* the list comprehension of step 2: chunks whose doc_id is selected
RestrictToSelection_KeepsUnowned(cs, selected) ==
    SelectSeq(cs, LAMBDA chunk :
                    \/ "doc_id" \notin DOMAIN chunk.metadata
                    \/ InList(chunk.metadata.doc_id, selected.items))

RestrictToSelection(cs, selected) ==
    SelectSeq(cs, LAMBDA chunk :
                    InList(Get(chunk.metadata, "doc_id", None), selected.items))

\* "\n\n".join(parts)
RECURSIVE JoinFrom(_, _)
JoinFrom(parts, i) ==
    IF i > Len(parts) THEN ""
    ELSE IF i = Len(parts) THEN parts[i]
    ELSE parts[i] \o "\n\n" \o JoinFrom(parts, i + 1)

\* Context with the contents separated by a single line break
RECURSIVE Context_SingleNewline(_)
Context_SingleNewline(cs) ==
    IF cs = <<>> THEN ""
    ELSE IF Len(cs) = 1 THEN cs[1].content
    ELSE cs[1].content \o "\n" \o Context_SingleNewline(Tail(cs))

\* context = "\n\n".join([chunk.content for chunk in filtered_chunks])
Context(cs) == JoinFrom([i \in 1..Len(cs) |-> cs[i].content], 1)

\* NoResultsMessage without the annotation of the selection
NoResultsMessage_NoAnnotation(selected) ==
    "No relevant documents found matching the criteria."

\* the message of the empty-result response
NoResultsMessage(selected) ==
    IF TruthyList(selected)
    THEN "No relevant documents found matching the criteria."
         \o " Search was limited to " \o ToString(Len(selected.items))
         \o " selected documents."
    ELSE "No relevant documents found matching the criteria."

\* the QueryResponse / EnhancedQueryResponse of the empty-result path
EmptyResultResponse(q, f, selected) ==
    [answers |-> <<NoResultsMessage(selected)>>,
     citations |-> <<>>,
     metadata |-> [query |-> q,
                   filters |-> f,
                   selected_document_ids |-> selected,
                   total_results |-> 0]]

\* AnsweredResponse with the allow-list tested against None only
AnsweredResponse_CountsEmptyList(q, f, selected, a, citations, kept) ==
    [answers |-> <<a>>,
     citations |-> citations,
     metadata |-> [query |-> q,
                   filters |-> f,
                   selected_document_ids |-> selected,
                   total_results |-> Len(kept),
                   documents_searched |->
                       IF ~selected.is_none
                       THEN NumValue(Len(selected.items))
                       ELSE StrValue("all")]]

\* the QueryResponse / EnhancedQueryResponse of the answered path
AnsweredResponse(q, f, selected, a, citations, kept) ==
    [answers |-> <<a>>,
     citations |-> citations,
     metadata |-> [query |-> q,
                   filters |-> f,
                   selected_document_ids |-> selected,
                   total_results |-> Len(kept),
                   documents_searched |->
                       IF TruthyList(selected)
                       THEN NumValue(Len(selected.items))
                       ELSE StrValue("all")]]

\* the filters and selections of the requests
RequestFilters ==
    { NoneList,
      SomeList(<<>>),
      SomeList(<< <<"relevance_threshold", NumValue(5)>> >>),
      SomeList(<< <<"relevance_threshold", NumValue(0)>> >>),
      SomeList(<< <<"document_ids", ListValue(<<"doc-A", "doc-C">>)>> >>),
      SomeList(<< <<"date_range", DictValue("2024-02-10", None)>> >>),
      SomeList(<< <<"author", StrValue("alice")>>,
                  <<"document_type", ListValue(<<"pdf">>)>> >>) }

Selections ==
    { NoneList,
      SomeList(<<>>),
      SomeList(<<"doc-A">>),
      SomeList(<<"doc-B", "doc-C">>),
      SomeList(<<"doc-Z">>) }

Methods == { "process_query", "process_enhanced_query" }

Init ==
    /\ index \in IndexStates
    /\ pc = "idle"
    /\ method = None
    /\ query = None
    /\ filters = NoneList
    /\ selected_document_ids = NoneList
    /\ scored_results = <<>>
    /\ raw_results = <<>>
    /\ chunks = <<>>
    /\ filtered_chunks = <<>>
    /\ answer = None
    /\ response = NoneRecord
    /\ retriever_calls = 0
    /\ llm_calls = <<>>
    /\ failed = {}
    /\ FltIdle
    /\ CitIdle
    /\ ThIdle
    /\ SdIdle
    /\ DocIdle

\* a caller invokes process_query or process_enhanced_query
StartQuery(m, q, f, selected) ==
    /\ pc = "idle"
    /\ method' = m
    /\ query' = q
    /\ filters' = f
    /\ selected_document_ids' = selected
    /\ pc' = "retrieve"
    /\ UNCHANGED <<index, scored_results, raw_results, chunks, filtered_chunks,
                   answer, response, retriever_calls, llm_calls>>
    /\ UNCHANGED failed
    /\ UNCHANGED <<fltVars, citVars, thVars, sdVars, docVars>>

\* step 1, the search succeeds: similarity_search returns the documents of
\* the k best results, without their scores
RetrieveOk ==
    /\ pc = "retrieve"
    /\ scored_results' = similarity_search_with_score(index, K)
    /\ raw_results' = DocsOf(similarity_search_with_score(index, K))
    /\ retriever_calls' = retriever_calls + 1
    /\ pc' = "normalize"
    /\ UNCHANGED <<index, method, query, filters, selected_document_ids,
                   chunks, filtered_chunks, answer, response, llm_calls>>
    /\ UNCHANGED failed
    /\ UNCHANGED <<fltVars, citVars, thVars, sdVars, docVars>>

\* step 1, the search raises inside similarity_search: the exception is
\* logged there and an empty list is returned
RetrieveFail ==
    /\ pc = "retrieve"
    /\ scored_results' = <<>>
    /\ raw_results' = <<>>
    /\ retriever_calls' = retriever_calls + 1
    /\ pc' = "normalize"
    /\ UNCHANGED <<index, method, query, filters, selected_document_ids,
                   chunks, filtered_chunks, answer, response, llm_calls>>
    /\ failed' = failed \cup {"retrieval"}
    /\ UNCHANGED <<fltVars, citVars, thVars, sdVars, docVars>>

\* Normalize with the converted chunks kept in a buffer that the theme
\* extraction fills too
Normalize_SharedBuffer ==
    /\ pc = "normalize"
    /\ chunks' = IF th_candidates # <<>> THEN th_candidates
                 ELSE _convert_to_document_chunks(raw_results)
    /\ pc' = "restrict"
    /\ UNCHANGED <<index, method, query, filters, selected_document_ids,
                   scored_results, raw_results, filtered_chunks, answer,
                   response, retriever_calls, llm_calls>>
    /\ UNCHANGED failed
    /\ UNCHANGED <<fltVars, citVars, thVars, sdVars, docVars>>

\* chunks = self._convert_to_document_chunks(raw_results)
Normalize ==
    /\ pc = "normalize"
    /\ chunks' = _convert_to_document_chunks(raw_results)
    /\ pc' = "restrict"
    /\ UNCHANGED <<index, method, query, filters, selected_document_ids,
                   scored_results, raw_results, filtered_chunks, answer,
                   response, retriever_calls, llm_calls>>
    /\ UNCHANGED failed
    /\ UNCHANGED <<fltVars, citVars, thVars, sdVars, docVars>>

\* step 2: if selected_document_ids: keep the chunks of the selected documents
Restrict ==
    /\ pc = "restrict"
    /\ chunks' = IF TruthyList(selected_document_ids)
                 THEN RestrictToSelection(chunks, selected_document_ids)
                 ELSE chunks
    /\ pc' = "filter"
    /\ UNCHANGED <<index, method, query, filters, selected_document_ids,
                   scored_results, raw_results, filtered_chunks, answer,
                   response, retriever_calls, llm_calls>>
    /\ UNCHANGED failed
    /\ UNCHANGED <<fltVars, citVars, thVars, sdVars, docVars>>

\* step 3: filtered_chunks = self.document_filter.apply_filters(chunks, filters)
Filter ==
    /\ pc = "filter"
    /\ filtered_chunks' = apply_filters(chunks, filters)
    /\ pc' = "filtered"
    /\ UNCHANGED <<index, method, query, filters, selected_document_ids,
                   scored_results, raw_results, chunks, answer, response,
                   retriever_calls, llm_calls>>
    /\ UNCHANGED failed
    /\ UNCHANGED <<fltVars, citVars, thVars, sdVars, docVars>>

\* if not filtered_chunks: return the empty-result response
EmptyResponse ==
    /\ pc = "filtered"
    /\ Len(filtered_chunks) = 0
    /\ response' = EmptyResultResponse(query, filters, selected_document_ids)
    /\ pc' = "returned"
    /\ UNCHANGED <<index, method, query, filters, selected_document_ids,
                   scored_results, raw_results, chunks, filtered_chunks,
                   answer, retriever_calls, llm_calls>>
    /\ UNCHANGED failed
    /\ UNCHANGED <<fltVars, citVars, thVars, sdVars, docVars>>

\* step 4: the context is built and answer_query returns a
AnswerOk(a) ==
    /\ pc = "filtered"
    /\ Len(filtered_chunks) > 0
    /\ llm_calls' = Append(llm_calls, [query |-> query,
                                       context |-> Context(filtered_chunks)])
    /\ answer' = a
    /\ pc' = "cite"
    /\ UNCHANGED <<index, method, query, filters, selected_document_ids,
                   scored_results, raw_results, chunks, filtered_chunks,
                   response, retriever_calls>>
    /\ UNCHANGED failed
    /\ UNCHANGED <<fltVars, citVars, thVars, sdVars, docVars>>

\* step 4: answer_query raises; the except clause logs and re-raises
AnswerRaise ==
    /\ pc = "filtered"
    /\ Len(filtered_chunks) > 0
    /\ llm_calls' = Append(llm_calls, [query |-> query,
                                       context |-> Context(filtered_chunks)])
    /\ pc' = "raised"
    /\ UNCHANGED <<index, method, query, filters, selected_document_ids,
                   scored_results, raw_results, chunks, filtered_chunks,
                   answer, response, retriever_calls>>
    /\ failed' = failed \cup {"generation"}
    /\ UNCHANGED <<fltVars, citVars, thVars, sdVars, docVars>>

\* Cite with the citations built from a second search of the index
Cite_SearchesAgain ==
    /\ pc = "cite"
    /\ response' =
         AnsweredResponse(query, filters, selected_document_ids, answer,
                          create_basic_citations(_convert_to_document_chunks(
                              DocsOf(similarity_search_with_score(index, K)))),
                          filtered_chunks)
    /\ pc' = "returned"
    /\ UNCHANGED <<index, method, query, filters, selected_document_ids,
                   scored_results, raw_results, chunks, filtered_chunks,
                   answer, retriever_calls, llm_calls>>
    /\ UNCHANGED failed
    /\ UNCHANGED <<fltVars, citVars, thVars, sdVars, docVars>>

\* step 5 and the return: basic citations in process_query, enhanced
\* citations over an empty vector_results in process_enhanced_query
Cite ==
    /\ pc = "cite"
    /\ response' =
         AnsweredResponse(query, filters, selected_document_ids, answer,
                          IF method = "process_query"
                          THEN create_basic_citations(filtered_chunks)
                          ELSE create_enhanced_citations(filtered_chunks, <<>>),
                          filtered_chunks)
    /\ pc' = "returned"
    /\ UNCHANGED <<index, method, query, filters, selected_document_ids,
                   scored_results, raw_results, chunks, filtered_chunks,
                   answer, retriever_calls, llm_calls>>
    /\ UNCHANGED failed
    /\ UNCHANGED <<fltVars, citVars, thVars, sdVars, docVars>>

Next ==
    \/ \E m \in Methods, q \in Queries, f \in RequestFilters, selected \in Selections :
         StartQuery(m, q, f, selected)
    \/ RetrieveOk
    \/ RetrieveFail
    \/ Normalize
    \/ Restrict
    \/ Filter
    \/ EmptyResponse
    \/ \E a \in Answers : AnswerOk(a)
    \/ AnswerRaise
    \/ Cite

Spec == Init /\ [][Next]_vars

-----------------------------------------------------------------------------
(* Properties of process_query / process_enhanced_query *)

\* the call has gone past the filter step
FilteringDone == pc \in {"filtered", "cite", "returned", "raised"}

\* C8: when no passage survives selection and filtering, the call returns
\* without error a response whose single answer is the fixed message,
\* extended with the number N of selected documents when a (non-empty)
\* allow-list was given, with no citation and total_results 0, and
\* answer_query is never invoked.
C8_EmptyResultResponse ==
    (FilteringDone /\ Len(filtered_chunks) = 0) =>
        /\ pc \in {"filtered", "returned"}
        /\ llm_calls = <<>>
        /\ pc = "returned" =>
             /\ response.answers =
                  << IF TruthyList(selected_document_ids)
                     THEN "No relevant documents found matching the criteria. Search was limited to "
                          \o ToString(Len(selected_document_ids.items))
                          \o " selected documents."
                     ELSE "No relevant documents found matching the criteria." >>
             /\ response.citations = <<>>
             /\ response.metadata.total_results = 0

C8_Witness ==
    /\ pc = "returned"
    /\ method = "process_enhanced_query"
    /\ selected_document_ids = SomeList(<<"doc-A">>)
    /\ Len(raw_results) = 1
    /\ Get(raw_results[1].metadata, "doc_id", None) = "doc-B"
    /\ Len(filtered_chunks) = 0
    /\ response.answers =
         <<"No relevant documents found matching the criteria. Search was limited to 1 selected documents.">>

\* C9: when at least one passage survives, the response of process_query has
\* exactly one answer, the generator's, one citation per surviving passage
\* in the passages' order, and total_results equal to their number.
C9_AnsweredResponse ==
    (pc = "returned" /\ method = "process_query" /\ Len(filtered_chunks) >= 1) =>
        /\ Len(llm_calls) = 1
        /\ answer \in Answers
        /\ response.answers = <<answer>>
        /\ Len(response.citations) = Len(filtered_chunks)
        /\ \A i \in 1..Len(filtered_chunks) :
             LET c == response.citations[i]
                 md == filtered_chunks[i].metadata
             IN  /\ c.doc_id = Get(md, "doc_id", "Unknown")
                 /\ c.document_name = md.filename
                 /\ c.page_number = md.page_number
                 /\ c.paragraph_number = md.paragraph_number
                 /\ c.content_snippet = filtered_chunks[i].content
        /\ response.metadata.total_results = Len(filtered_chunks)
        /\ Len(response.citations) = response.metadata.total_results
        /\ response.metadata.total_results >= 1

C9_Witness ==
    /\ pc = "returned"
    /\ method = "process_query"
    /\ Len(raw_results) = 3
    /\ Len(filtered_chunks) = 2
    /\ filtered_chunks[1] # filtered_chunks[2]
    /\ Len(response.citations) = 2
    /\ response.metadata.total_results = 2

\* the results of the retriever whose score is at least t
ScoredAtLeast(results, t) == SelectSeq(results, LAMBDA r : r.score >= t)

\* C10 as stated: under filters {relevance_threshold: t} and no selection,
\* total_results of process_query is the number of retrieved passages whose
\* similarity score is at least t.
C10_ThresholdCountsRetrievedScores ==
    (/\ pc = "returned"
     /\ method = "process_query"
     /\ OnlyThreshold(filters)
     /\ ~TruthyList(selected_document_ids)) =>
        response.metadata.total_results =
            Len(ScoredAtLeast(scored_results, filters.items[1][2].num))


\* the passage carries a doc_id and that doc_id is a member of the allow-list
OwnedBySelection(chunk, selected) ==
    /\ "doc_id" \in DOMAIN chunk.metadata
    /\ InList(chunk.metadata.doc_id, selected.items)

\* C11: when a document-ID allow-list is given to process_query or
\* process_enhanced_query, every passage whose doc_id is not in the list is
\* dropped before filtering: from step 3 on the candidates and the survivors
\* all carry a doc_id of the list, so every citation of the response has a
\* doc_id of the list and cites a passage that carries one.
C11_AllowListBoundsCitations ==
    (TruthyList(selected_document_ids)
        /\ pc \in {"filter", "filtered", "cite", "returned", "raised"}) =>
        /\ \A i \in 1..Len(chunks) :
             OwnedBySelection(chunks[i], selected_document_ids)
        /\ \A i \in 1..Len(filtered_chunks) :
             OwnedBySelection(filtered_chunks[i], selected_document_ids)
        /\ pc = "returned" =>
             /\ Len(response.citations) <= Len(filtered_chunks)
             /\ \A i \in 1..Len(response.citations) :
                  /\ InList(response.citations[i].doc_id,
                            selected_document_ids.items)
                  /\ "doc_id" \in DOMAIN filtered_chunks[i].metadata
                  /\ response.citations[i].doc_id =
                         filtered_chunks[i].metadata.doc_id

C11_Witness ==
    /\ pc = "returned"
    /\ selected_document_ids = SomeList(<<"doc-A">>)
    /\ Len(raw_results) = 3
    /\ \E i \in 1..Len(raw_results) :
         "doc_id" \notin DOMAIN raw_results[i].metadata
    /\ \E i \in 1..Len(raw_results) :
         Get(raw_results[i].metadata, "doc_id", None) = "doc-C"
    /\ Len(response.citations) >= 1

\* C12 as stated: whenever retrieval or generation fails during process_query
\* or process_enhanced_query the call ends in a propagated failure, so every
\* returned response was built from a retrieval and a generation that both
\* succeeded.
C12_FailuresPropagate ==
    pc = "returned" => failed = {}


(***************************************************************************)
(* Theme extraction: QueryEngine.extract_themes,                           *)
(* extract_themes_for_document and extract_all_themes.                     *)
(***************************************************************************)

\* similarity_search(query, k=20) of extract_themes
ThemeK == 20

\* chunk.content[:500] of the text sent to the LLM
PreviewLen == 500

\* list(all_docs["documents"].keys())[:10] and raw_chunks[:2]
SampleDocs == 10
SampleChunksPerDoc == 2

\* s[:n]
Prefix(s, n) == SubSeq(s, 1, IF Len(s) < n THEN Len(s) ELSE n)

\* VectorStoreService.get_chunks_by_document_id: the stored passages whose
\* metadata doc_id is document_id, each as {content, metadata, score}
get_chunks_by_document_id(stored, document_id) ==
    LET hits == SelectSeq(stored, LAMBDA r :
                    Get(r.doc.metadata, "doc_id", None) = document_id)
    IN  [i \in 1..Len(hits) |->
            [content |-> hits[i].doc.page_content,
             metadata |-> hits[i].doc.metadata,
             score |-> hits[i].score]]

\* the keys of list_documents()["documents"]: the doc_id of every stored
\* passage that has one, in the order of first occurrence
RECURSIVE DocumentIdsFrom(_, _, _)
DocumentIdsFrom(stored, i, seen) ==
    IF i > Len(stored) THEN seen
    ELSE LET doc_id == Get(stored[i].doc.metadata, "doc_id", None)
         IN  DocumentIdsFrom(stored, i + 1,
                 IF Truthy(doc_id) /\ ~InList(doc_id, seen)
                 THEN Append(seen, doc_id) ELSE seen)

DocumentIds(stored) == DocumentIdsFrom(stored, 1, <<>>)

\* DocumentChunk(content=chunk_data.get("content", ""), ...) for each entry
ChunksOf(raw_chunks) ==
    [i \in 1..Len(raw_chunks) |->
        DocumentChunk(raw_chunks[i].content, raw_chunks[i].metadata,
                      raw_chunks[i].score)]

\* the sampling loop of extract_all_themes
RECURSIVE SampleFrom(_, _, _)
SampleFrom(stored, doc_ids, i) ==
    IF i > Len(doc_ids) THEN <<>>
    ELSE ChunksOf(Prefix(get_chunks_by_document_id(stored, doc_ids[i]),
                         SampleChunksPerDoc))
         \o SampleFrom(stored, doc_ids, i + 1)

sample_chunks(stored) ==
    SampleFrom(stored, Prefix(DocumentIds(stored), SampleDocs), 1)

\* the candidate passages of each entry point
Candidates(m, stored, f, document_id) ==
    IF m = "extract_themes"
    THEN apply_filters(
             _convert_to_document_chunks(
                 DocsOf(similarity_search_with_score(stored, ThemeK))), f)
    ELSE IF m = "extract_themes_for_document"
    THEN ChunksOf(get_chunks_by_document_id(stored, document_id))
    ELSE sample_chunks(stored)

\* "\n\n".join(f"{label} {i+1}: {chunk.content[:500]}..." ...)
documents_text(label, cs) ==
    JoinFrom([i \in 1..Len(cs) |->
                 label \o " " \o ToString(i) \o ": "
                 \o Prefix(cs[i].content, PreviewLen) \o "..."], 1)

TextLabel(m) ==
    IF m = "extract_themes_for_document" THEN "Chunk" ELSE "Document"


\* d[k] = v on a dict kept as a sequence of <<key, value>> in insertion order
DictSet(d, k, v) ==
    IF \E i \in 1..Len(d) : d[i][1] = k
    THEN [i \in 1..Len(d) |-> IF d[i][1] = k THEN <<k, v>> ELSE d[i]]
    ELSE Append(d, <<k, v>>)

\* one entry of the list LLMService.extract_themes returns
Theme(theme_name, document_indices) ==
    [theme_name |-> theme_name, document_indices |-> document_indices]

\* chunks[idx] of a Python list, for an idx that does not raise
PyIndex(cs, idx) == IF idx >= 0 THEN cs[idx + 1] ELSE cs[Len(cs) + idx + 1]

\* the index loop with a too large index resolved to the last passage
RECURSIVE ThemeChunksFrom_Clamp(_, _, _)
ThemeChunksFrom_Clamp(cs, doc_indices, i) ==
    IF i > Len(doc_indices) THEN <<>>
    ELSE (IF doc_indices[i] < Len(cs)
          THEN <<PyIndex(cs, doc_indices[i])>>
          ELSE <<cs[Len(cs)]>>)
         \o ThemeChunksFrom_Clamp(cs, doc_indices, i + 1)

\* for idx in doc_indices: if idx < len(chunks): theme_chunks.append(chunks[idx])
RECURSIVE ThemeChunksFrom(_, _, _)
ThemeChunksFrom(cs, doc_indices, i) ==
    IF i > Len(doc_indices) THEN <<>>
    ELSE (IF doc_indices[i] < Len(cs)
          THEN <<PyIndex(cs, doc_indices[i])>>
          ELSE <<>>)
         \o ThemeChunksFrom(cs, doc_indices, i + 1)

theme_chunks(cs, theme) ==
    ThemeChunksFrom(cs, Get(theme, "document_indices", <<>>), 1)

\* the index loop reaches a chunks[idx] that raises IndexError: an idx that
\* passes the test and lies before the first element counted from the end
IndexErrorIn(cs, themes_data) ==
    \E t \in 1..Len(themes_data) :
        LET doc_indices == Get(themes_data[t], "document_indices", <<>>)
        IN  \E i \in 1..Len(doc_indices) :
                /\ doc_indices[i] < Len(cs)
                /\ doc_indices[i] < -Len(cs)

\* supporting_docs: chunk.metadata.get("doc_id", "Unknown") of each theme chunk
supporting_docs(cs, theme) ==
    LET tc == theme_chunks(cs, theme)
    IN  [i \in 1..Len(tc) |-> Get(tc[i].metadata, "doc_id", "Unknown")]

\* list(set(supporting_docs)): the distinct entries, in the order the set
\* iterates them
ListOfSet(docs, iteration) == SelectSeq(iteration, LAMBDA d : InList(d, docs))

\* theme_names = [theme.get("theme_name", "") for theme in themes_data]
theme_names(themes_data) ==
    [t \in 1..Len(themes_data) |-> Get(themes_data[t], "theme_name", "")]

\* the dict supporting_documents after the loop over themes_data
RECURSIVE SupportingFrom(_, _, _, _, _, _, _)
SupportingFrom(m, cs, document_id, iteration, themes_data, t, acc) ==
    IF t > Len(themes_data) THEN acc
    ELSE SupportingFrom(m, cs, document_id, iteration, themes_data, t + 1,
            DictSet(acc, Get(themes_data[t], "theme_name", ""),
                IF m = "extract_themes_for_document" THEN <<document_id>>
                ELSE IF m = "extract_all_themes"
                THEN ListOfSet(supporting_docs(cs, themes_data[t]), iteration)
                ELSE supporting_docs(cs, themes_data[t])))

\* the dict detailed_citations after the loop over themes_data
RECURSIVE CitationsFrom(_, _, _, _)
CitationsFrom(cs, themes_data, t, acc) ==
    IF t > Len(themes_data) THEN acc
    ELSE CitationsFrom(cs, themes_data, t + 1,
            DictSet(acc, Get(themes_data[t], "theme_name", ""),
                    create_basic_citations(theme_chunks(cs, themes_data[t]))))

\* metadata of the ThemeResponse of each entry point
ThemeMetadata(m, q, f, document_id, total_documents, total_results) ==
    IF m = "extract_themes"
    THEN [query |-> q, filters |-> f, total_results |-> total_results]
    ELSE IF m = "extract_themes_for_document"
    THEN [document_id |-> document_id, total_results |-> total_results]
    ELSE IF total_results = 0
    THEN [total_results |-> 0]
    ELSE [total_documents |-> total_documents,
          total_results |-> total_results]

\* the ThemeResponse of the empty candidate set
EmptyThemeResponse(m, q, f, document_id) ==
    [themes |-> <<>>,
     supporting_documents |-> <<>>,
     detailed_citations |-> <<>>,
     metadata |-> ThemeMetadata(m, q, f, document_id, 0, 0)]

\* the ThemeResponse built from themes_data
OrganizedThemeResponse(m, q, f, document_id, total, cs, themes_data, iteration) ==
    [themes |-> theme_names(themes_data),
     supporting_documents |->
        SupportingFrom(m, cs, document_id, iteration, themes_data, 1, <<>>),
     detailed_citations |-> CitationsFrom(cs, themes_data, 1, <<>>),
     metadata |-> ThemeMetadata(m, q, f, document_id, total, Len(cs))]


\* the variables of a process_query call, which theme extraction leaves alone
callVars == <<pc, method, query, filters, selected_document_ids,
              scored_results, raw_results, chunks, filtered_chunks, answer,
              response, retriever_calls, llm_calls, failed>>

\* the document ids asked for
ThemeDocumentIds == { "doc-A", "doc-B", "doc-Z" }

\* what the LLM may return: in-range, too large, negative, repeated indices,
\* a repeated theme name, a theme without document_indices
ThemesData ==
    { <<>>,
      <<Theme("Refunds", <<0>>)>>,
      <<Theme("Refunds", <<0, 1>>), Theme("Returns", <<1>>)>>,
      <<Theme("Refunds", <<0, 3>>), [theme_name |-> "Misc"]>>,
      <<Theme("Refunds", <<1, 0, 1>>)>>,
      <<Theme("Refunds", <<5>>), Theme("Returns", <<0, 4>>)>>,
      <<Theme("Refunds", <<-1>>)>>,
      <<Theme("Refunds", <<0>>), Theme("Returns", <<-4>>)>>,
      <<Theme("Refunds", <<2>>), Theme("Refunds", <<0>>)>> }

\* the orders in which a set of the candidates' document ids may iterate
Iterations(cs) ==
    LET ids == { Get(cs[i].metadata, "doc_id", "Unknown") : i \in 1..Len(cs) }
    IN  { p \in [1..Cardinality(ids) -> ids] :
            \A a, b \in 1..Cardinality(ids) : a # b => p[a] # p[b] }

InitThemes ==
    /\ index \in IndexStates
    /\ CallIdle
    /\ FltIdle
    /\ CitIdle
    /\ ThIdle
    /\ SdIdle
    /\ DocIdle

\* a caller invokes one of the entry points
StartThemes(m, q, f, document_id) ==
    /\ th_pc = "idle"
    /\ th_method' = m
    /\ th_query' = q
    /\ th_filters' = f
    /\ th_document_id' = document_id
    /\ th_pc' = "collect"
    /\ UNCHANGED <<th_total_documents, th_candidates, th_themes_data,
                   th_response, th_llm_calls>>
    /\ UNCHANGED <<index, callVars, fltVars, citVars, sdVars, docVars>>

\* the candidate passages are collected from the vector store
CollectCandidates ==
    /\ th_pc = "collect"
    /\ th_candidates' =
          Candidates(th_method, index, th_filters, th_document_id)
    /\ th_total_documents' = IF th_method = "extract_all_themes"
                             THEN Len(DocumentIds(index)) ELSE 0
    /\ th_pc' = "collected"
    /\ UNCHANGED <<th_method, th_query, th_filters, th_document_id,
                   th_themes_data, th_response, th_llm_calls>>
    /\ UNCHANGED <<index, callVars, fltVars, citVars, sdVars, docVars>>

\* the vector store fails: similarity_search and get_chunks_by_document_id
\* return [], list_documents returns no documents
CollectFails ==
    /\ th_pc = "collect"
    /\ th_candidates' = <<>>
    /\ th_total_documents' = 0
    /\ th_pc' = "collected"
    /\ UNCHANGED <<th_method, th_query, th_filters, th_document_id,
                   th_themes_data, th_response, th_llm_calls>>
    /\ UNCHANGED <<index, callVars, fltVars, citVars, sdVars, docVars>>

\* extract_all_themes: the listing succeeds, every get_chunks_by_document_id
\* fails and returns []
SampleFails ==
    /\ th_pc = "collect"
    /\ th_method = "extract_all_themes"
    /\ DocumentIds(index) # <<>>
    /\ th_candidates' = <<>>
    /\ th_total_documents' = Len(DocumentIds(index))
    /\ th_pc' = "collected"
    /\ UNCHANGED <<th_method, th_query, th_filters, th_document_id,
                   th_themes_data, th_response, th_llm_calls>>
    /\ UNCHANGED <<index, callVars, fltVars, citVars, sdVars, docVars>>

\* the empty candidate set handed to the LLM before the empty response
EmptyThemes_InvokesLLM ==
    /\ th_pc = "collected"
    /\ th_candidates = <<>>
    /\ th_llm_calls' = Append(th_llm_calls,
          documents_text(TextLabel(th_method), th_candidates))
    /\ th_response' = EmptyThemeResponse(th_method, th_query, th_filters,
                                         th_document_id)
    /\ th_pc' = "returned"
    /\ UNCHANGED <<th_method, th_query, th_filters, th_document_id,
                   th_total_documents, th_candidates, th_themes_data>>
    /\ UNCHANGED <<index, callVars, fltVars, citVars, sdVars, docVars>>

\* if not filtered_chunks / not chunks / not documents / not sample_chunks
EmptyThemes ==
    /\ th_pc = "collected"
    /\ th_candidates = <<>>
    /\ th_response' = EmptyThemeResponse(th_method, th_query, th_filters,
                                         th_document_id)
    /\ th_pc' = "returned"
    /\ UNCHANGED <<th_method, th_query, th_filters, th_document_id,
                   th_total_documents, th_candidates, th_themes_data,
                   th_llm_calls>>
    /\ UNCHANGED <<index, callVars, fltVars, citVars, sdVars, docVars>>

\* themes_data = self.llm_service.extract_themes(documents_text)
ExtractThemesOk(themes_data) ==
    /\ th_pc = "collected"
    /\ th_candidates # <<>>
    /\ th_llm_calls' = Append(th_llm_calls,
          documents_text(TextLabel(th_method), th_candidates))
    /\ th_themes_data' = themes_data
    /\ th_pc' = "organize"
    /\ UNCHANGED <<th_method, th_query, th_filters, th_document_id,
                   th_total_documents, th_candidates, th_response>>
    /\ UNCHANGED <<index, callVars, fltVars, citVars, sdVars, docVars>>

\* LLMService.extract_themes raises: logged and raised again
ExtractThemesRaise ==
    /\ th_pc = "collected"
    /\ th_candidates # <<>>
    /\ th_llm_calls' = Append(th_llm_calls,
          documents_text(TextLabel(th_method), th_candidates))
    /\ th_pc' = "raised"
    /\ UNCHANGED <<th_method, th_query, th_filters, th_document_id,
                   th_total_documents, th_candidates, th_themes_data,
                   th_response>>
    /\ UNCHANGED <<index, callVars, fltVars, citVars, sdVars, docVars>>

\* the loop over themes_data completes and the ThemeResponse is returned
OrganizeThemes(iteration) ==
    /\ th_pc = "organize"
    /\ ~IndexErrorIn(th_candidates, th_themes_data)
    /\ th_response' = OrganizedThemeResponse(th_method, th_query, th_filters,
          th_document_id, th_total_documents, th_candidates, th_themes_data,
          iteration)
    /\ th_pc' = "returned"
    /\ UNCHANGED <<th_method, th_query, th_filters, th_document_id,
                   th_total_documents, th_candidates, th_themes_data,
                   th_llm_calls>>
    /\ UNCHANGED <<index, callVars, fltVars, citVars, sdVars, docVars>>

\* chunks[idx] raises IndexError inside the loop: logged and raised again
OrganizeRaises ==
    /\ th_pc = "organize"
    /\ IndexErrorIn(th_candidates, th_themes_data)
    /\ th_pc' = "raised"
    /\ UNCHANGED <<th_method, th_query, th_filters, th_document_id,
                   th_total_documents, th_candidates, th_themes_data,
                   th_response, th_llm_calls>>
    /\ UNCHANGED <<index, callVars, fltVars, citVars, sdVars, docVars>>

NextThemes ==
    \/ \E q \in Queries, f \in RequestFilters :
          StartThemes("extract_themes", q, f, None)
    \/ \E d \in ThemeDocumentIds :
          StartThemes("extract_themes_for_document", None, NoneList, d)
    \/ StartThemes("extract_all_themes", None, NoneList, None)
    \/ CollectCandidates
    \/ CollectFails
    \/ SampleFails
    \/ EmptyThemes
    \/ \E themes_data \in ThemesData : ExtractThemesOk(themes_data)
    \/ ExtractThemesRaise
    \/ \E iteration \in Iterations(th_candidates) : OrganizeThemes(iteration)
    \/ OrganizeRaises

SpecThemes == InitThemes /\ [][NextThemes]_vars


\* the keys of a dict and the value under a key
DictKeys(d) == { d[i][1] : i \in 1..Len(d) }

DictGet(d, k) == d[CHOOSE i \in 1..Len(d) : d[i][1] = k][2]

\* the theme of themes_data whose entries the dicts of the response hold
\* under its name: the last theme of that name
LastOfName(themes_data, t) ==
    \A u \in (t + 1)..Len(themes_data) :
        Get(themes_data[u], "theme_name", "")
            # Get(themes_data[t], "theme_name", "")

\* the listed indices of a theme that are below n, in the listed order
Below(theme, n) ==
    SelectSeq(Get(theme, "document_indices", <<>>), LAMBDA idx : idx < n)

\* the listed indices of a theme that lie in 0..n-1, in the listed order
InRange(theme, n) ==
    SelectSeq(Get(theme, "document_indices", <<>>),
              LAMBDA idx : 0 <= idx /\ idx < n)

\* the theme lists an index that is at least n
ListsTooLarge(theme, n) ==
    \E i \in 1..Len(Get(theme, "document_indices", <<>>)) :
        theme.document_indices[i] >= n

\* C13: in all three entry points an index >= len(candidates) contributes
\* nothing: each theme's citations are, one for one and in order, the
\* citations of the candidates at the listed indices below len(candidates),
\* and its supporting documents are the owners of exactly those candidates
\* (the requested document for extract_themes_for_document).
C13_TooLargeIndexNeverContributes ==
    (th_pc = "returned" /\ th_candidates # <<>>) =>
        /\ DictKeys(th_response.detailed_citations)
              = { Get(th_themes_data[t], "theme_name", "") :
                     t \in 1..Len(th_themes_data) }
        /\ DictKeys(th_response.supporting_documents)
              = DictKeys(th_response.detailed_citations)
        /\ \A t \in 1..Len(th_themes_data) :
             LastOfName(th_themes_data, t) =>
               LET name == Get(th_themes_data[t], "theme_name", "")
                   listed == Below(th_themes_data[t], Len(th_candidates))
                   cits == DictGet(th_response.detailed_citations, name)
                   docs == DictGet(th_response.supporting_documents, name)
                   owners == [i \in 1..Len(listed) |->
                                Get(PyIndex(th_candidates, listed[i]).metadata,
                                    "doc_id", "Unknown")]
               IN  /\ Len(cits) = Len(listed)
                   /\ \A i \in 1..Len(listed) :
                        cits[i] = Citation(PyIndex(th_candidates, listed[i]))
                   /\ th_method = "extract_themes" => docs = owners
                   /\ th_method = "extract_themes_for_document" =>
                        docs = <<th_document_id>>
                   /\ th_method = "extract_all_themes" =>
                        /\ { docs[i] : i \in 1..Len(docs) }
                              = { owners[i] : i \in 1..Len(owners) }
                        /\ \A a, b \in 1..Len(docs) :
                              a # b => docs[a] # docs[b]

C13_Witness ==
    /\ th_pc = "returned"
    /\ th_method = "extract_themes"
    /\ Len(th_candidates) = 2
    /\ \E t \in 1..Len(th_themes_data) :
         /\ ListsTooLarge(th_themes_data[t], Len(th_candidates))
         /\ Below(th_themes_data[t], Len(th_candidates)) # <<>>
         /\ Len(DictGet(th_response.detailed_citations,
                        th_themes_data[t].theme_name)) = 1

\* each theme's citations come only from the in-range indices it listed
CitesInRangeOnly ==
    /\ Len(th_response.themes) = Len(th_themes_data)
    /\ \A t \in 1..Len(th_themes_data) :
         LastOfName(th_themes_data, t) =>
           LET name == Get(th_themes_data[t], "theme_name", "")
               listed == InRange(th_themes_data[t], Len(th_candidates))
               cits == DictGet(th_response.detailed_citations, name)
           IN  /\ Len(cits) = Len(listed)
               /\ \A i \in 1..Len(listed) :
                    cits[i] = Citation(th_candidates[listed[i] + 1])

\* C14 as stated: every index outside 0..len(candidates)-1, too large or
\* negative, is discarded on its own: once the LLM has returned its themes the
\* call returns a ThemeResponse with every theme, and each theme's citations
\* come only from the in-range indices it listed.
C14_OutOfRangeDiscardedPerIndex ==
    [][th_pc = "organize" => (th_pc' = "returned" /\ CitesInRangeOnly')]_vars

\* C15: when the candidate set is empty the call returns a ThemeResponse with
\* no themes, empty supporting_documents and detailed_citations and
\* total_results == 0, and LLMService.extract_themes is never invoked.
C15_EmptyCandidatesShortCircuit ==
    (th_pc \in {"collected", "organize", "returned", "raised"}
        /\ th_candidates = <<>>) =>
        /\ th_llm_calls = <<>>
        /\ th_pc \in {"collected", "returned"}
        /\ th_pc = "returned" =>
             /\ th_response.themes = <<>>
             /\ th_response.supporting_documents = <<>>
             /\ th_response.detailed_citations = <<>>
             /\ th_response.metadata.total_results = 0

C15_Witness ==
    /\ th_pc = "returned"
    /\ th_method = "extract_themes"
    /\ Len(index) >= 2
    /\ th_filters # NoneList
    /\ th_candidates = <<>>
    /\ th_response.metadata.total_results = 0


(***************************************************************************)
(* Document search: QueryEngine.search_documents.                          *)
(***************************************************************************)

\* str.lower() of every character of the compared strings
LowerTable ==
    LET upper == "ABCDEFGHIJKLMNOPQRSTUVWXYZ"
        lower == "abcdefghijklmnopqrstuvwxyz"
    IN  [c \in { SubSeq(CharOrder, i, i) : i \in 1..Len(CharOrder) } |->
            IF \E i \in 1..Len(upper) : SubSeq(upper, i, i) = c
            THEN SubSeq(lower, (CHOOSE i \in 1..Len(upper) :
                                   SubSeq(upper, i, i) = c),
                               (CHOOSE i \in 1..Len(upper) :
                                   SubSeq(upper, i, i) = c))
            ELSE c]

\* str.lower()
RECURSIVE Lower(_)
Lower(str) ==
    IF str = "" THEN ""
    ELSE LowerTable[SubSeq(str, 1, 1)] \o Lower(SubSeq(str, 2, Len(str)))

\* needle in hay, on Python str
Contains(hay, needle) ==
    \E i \in 1..(Len(hay) - Len(needle) + 1) :
        SubSeq(hay, i, i + Len(needle) - 1) = needle

\* str(value) of a str or None
PyStr(value) == IF value = None THEN "None" ELSE value

Digits == "0123456789"

\* the text is one to width digits
IsNumber(str, width) ==
    /\ 1 <= Len(str)
    /\ Len(str) <= width
    /\ \A i \in 1..Len(str) :
          \E d \in 1..Len(Digits) : SubSeq(Digits, d, d) = SubSeq(str, i, i)

RECURSIVE ToInt(_)
ToInt(str) ==
    IF str = "" THEN 0
    ELSE ToInt(SubSeq(str, 1, Len(str) - 1)) * 10
         + (CHOOSE d \in 1..Len(Digits) :
               SubSeq(Digits, d, d) = SubSeq(str, Len(str), Len(str))) - 1

\* str.split(sep) for a one-character separator
RECURSIVE Split(_, _)
Split(str, sep) ==
    IF \E i \in 1..Len(str) : SubSeq(str, i, i) = sep
    THEN LET i == CHOOSE i \in 1..Len(str) :
                     /\ SubSeq(str, i, i) = sep
                     /\ \A j \in 1..(i - 1) : SubSeq(str, j, j) # sep
         IN  <<SubSeq(str, 1, i - 1)>> \o Split(SubSeq(str, i + 1, Len(str)), sep)
    ELSE <<str>>

DaysIn(y, m) ==
    IF m = 2
    THEN (IF (y % 4 = 0 /\ y % 100 # 0) \/ y % 400 = 0 THEN 29 ELSE 28)
    ELSE IF m \in {4, 6, 9, 11} THEN 30 ELSE 31

\* a datetime as <<year, month, day, hour, minute, second, microsecond>>;
\* NoDate stands for a failed parse
NoDate == <<>>

\* datetime.strptime(text, "%Y-%m-%d"): fields year-month-day
ParseDay(str) ==
    LET parts == Split(str, "-")
    IN  IF /\ Len(parts) = 3
           /\ Len(parts[1]) = 4 /\ IsNumber(parts[1], 4)
           /\ IsNumber(parts[2], 2)
           /\ IsNumber(parts[3], 2)
        THEN LET y == ToInt(parts[1])
                 m == ToInt(parts[2])
                 d == ToInt(parts[3])
             IN  IF y >= 1 /\ m \in 1..12 /\ d >= 1 /\ d <= DaysIn(y, m)
                 THEN <<y, m, d>> ELSE NoDate
        ELSE NoDate

\* the time of day of "%H:%M:%S" (fraction = FALSE) or "%H:%M:%S.%f"; the
\* one to six digits of %f read as microseconds
ParseClock(str, fraction) ==
    LET halves == Split(str, ".")
        parts == Split(halves[1], ":")
    IN  IF /\ Len(halves) = (IF fraction THEN 2 ELSE 1)
           /\ Len(parts) = 3
           /\ \A i \in 1..3 : IsNumber(parts[i], 2)
           /\ (fraction => IsNumber(halves[2], 6))
        THEN LET h == ToInt(parts[1])
                 mi == ToInt(parts[2])
                 sec == ToInt(parts[3])
             IN  IF h <= 23 /\ mi <= 59 /\ sec <= 59
                 THEN <<h, mi, sec,
                        IF fraction
                        THEN ToInt(halves[2]
                                   \o SubSeq("000000", 1, 6 - Len(halves[2])))
                        ELSE 0>>
                 ELSE NoDate
        ELSE NoDate

\* datetime.strptime(text, fmt) for the three formats of parse_date;
\* NoDate where strptime raises ValueError
strptime(str, fmt) ==
    IF fmt = "%Y-%m-%d"
    THEN (IF ParseDay(str) = NoDate THEN NoDate
          ELSE ParseDay(str) \o <<0, 0, 0, 0>>)
    ELSE LET halves == Split(str, "T")
         IN  IF Len(halves) # 2 THEN NoDate
             ELSE LET day == ParseDay(halves[1])
                      clock == ParseClock(halves[2],
                                          fmt = "%Y-%m-%dT%H:%M:%S.%f")
                  IN  IF day = NoDate \/ clock = NoDate THEN NoDate
                      ELSE day \o clock

\* parse_date: the first format that parses wins; None (here NoDate) when
\* none does or when date_str is not a str
parse_date(date_str) ==
    IF date_str = None THEN NoDate
    ELSE IF strptime(date_str, "%Y-%m-%dT%H:%M:%S.%f") # NoDate
    THEN strptime(date_str, "%Y-%m-%dT%H:%M:%S.%f")
    ELSE IF strptime(date_str, "%Y-%m-%d") # NoDate
    THEN strptime(date_str, "%Y-%m-%d")
    ELSE strptime(date_str, "%Y-%m-%dT%H:%M:%S")

\* a < b on datetime
RECURSIVE DateLessFrom(_, _, _)
DateLessFrom(a, b, i) ==
    IF i > Len(a) THEN FALSE
    ELSE IF a[i] # b[i] THEN a[i] < b[i]
    ELSE DateLessFrom(a, b, i + 1)

DateLess(a, b) == DateLessFrom(a, b, 1)


\* documents whose filenames have upper-case letters or a date that is no
\* calendar date
DocE == [id |-> "doc-E", filename |-> "Bob_Invoice_2024-03-01.PDF",
         author |-> "Bob", document_date |-> "2024-03-01",
         document_type |-> "pdf"]
DocF == [id |-> "doc-F", filename |-> "carol_scan_2024-13-45.pdf",
         author |-> "carol", document_date |-> "2024-13-45",
         document_type |-> "pdf"]

\* the points the collection may hold when documents are searched
SearchPool ==
    { Scored("refunds within 30 days", ChunkMetadata(DocA, 1, 0), 7),
      Scored("memo on returns", ChunkMetadata(DocC, 3, 0), 5),
      Scored("scanned note", ChunkMetadata(DocB, 1, 0), 3),
      Scored("invoice total", ChunkMetadata(DocE, 2, 0), 2),
      Scored("scan", ChunkMetadata(DocF, 4, 0), 1) }

\* the collection in scroll order: distinct points
SearchIndexStates ==
    { st \in SeqsUpTo(SearchPool, MaxIndexed) :
        \A a, b \in 1..Len(st) : a # b => st[a] # st[b] }

\* the first stored point of a document
FirstPoint(stored, doc_id) ==
    stored[CHOOSE i \in 1..Len(stored) :
              /\ Get(stored[i].doc.metadata, "doc_id", None) = doc_id
              /\ \A j \in 1..(i - 1) :
                    Get(stored[j].doc.metadata, "doc_id", None) # doc_id]

\* the entry list_documents builds from a document's first point, as
\* search_documents copies it into all_documents
ListedDocument(doc_id, metadata) ==
    [id |-> doc_id,
     filename |-> Get(metadata, "filename", "Unknown"),
     status |-> "completed",
     upload_timestamp |-> Get(metadata, "document_date", "Unknown"),
     metadata |-> [title |-> Get(metadata, "filename", "Unknown"),
                   author |-> Get(metadata, "author", None),
                   pages |-> Get(metadata, "page_number", None),
                   file_type |-> Get(metadata, "document_type", None)]]

\* all_documents: one entry per listed document, in the order of the dict
all_documents(stored) ==
    LET ids == DocumentIds(stored)
    IN  [i \in 1..Len(ids) |->
            ListedDocument(ids[i], FirstPoint(stored, ids[i]).doc.metadata)]

\* the test of the search-term filter
MatchesSearchTerm(doc, term) ==
    \/ Contains(Lower(doc.filename), Lower(term))
    \/ Contains(Lower(PyStr(Get(doc.metadata, "title", ""))), Lower(term))
    \/ Contains(Lower(PyStr(Get(doc.metadata, "author", ""))), Lower(term))

\* the five text filters, each applied when its request field is truthy, in
\* the order of the code
TextFiltered(docs, request) ==
    LET d1 == IF Truthy(request.search_term)
              THEN SelectSeq(docs, LAMBDA doc :
                      MatchesSearchTerm(doc, request.search_term))
              ELSE docs
        d2 == IF Truthy(request.filename_filter)
              THEN SelectSeq(d1, LAMBDA doc :
                      Contains(Lower(doc.filename),
                               Lower(request.filename_filter)))
              ELSE d1
        d3 == IF Truthy(request.content_type_filter)
              THEN SelectSeq(d2, LAMBDA doc :
                      Contains(Lower(PyStr(Get(doc.metadata, "file_type", ""))),
                               Lower(request.content_type_filter)))
              ELSE d2
        d4 == IF Truthy(request.author_filter)
              THEN SelectSeq(d3, LAMBDA doc :
                      Contains(Lower(PyStr(Get(doc.metadata, "author", ""))),
                               Lower(request.author_filter)))
              ELSE d3
    IN  IF Truthy(request.status_filter)
        THEN SelectSeq(d4, LAMBDA doc :
                Contains(Lower(doc.status), Lower(request.status_filter)))
        ELSE d4

\* the date test that keeps a document whose timestamp does not parse
DateIncluded_KeepsUnparsed(doc, request) ==
    LET doc_date == parse_date(doc.upload_timestamp)
        from_date == parse_date(request.date_from)
        to_date == parse_date(request.date_to)
    IN  doc_date = NoDate
        \/ /\ ~(Truthy(request.date_from) /\ from_date # NoDate
                  /\ DateLess(doc_date, from_date))
           /\ ~(Truthy(request.date_to) /\ to_date # NoDate
                  /\ DateLess(to_date, doc_date))

\* the body of the loop of the date-range filter
DateIncluded(doc, request) ==
    LET doc_date == parse_date(doc.upload_timestamp)
        from_date == parse_date(request.date_from)
        to_date == parse_date(request.date_to)
    IN  /\ doc_date # NoDate
        /\ ~(Truthy(request.date_from) /\ from_date # NoDate
               /\ DateLess(doc_date, from_date))
        /\ ~(Truthy(request.date_to) /\ to_date # NoDate
               /\ DateLess(to_date, doc_date))

\* if search_request.date_from or search_request.date_to: ...
DateFiltered(docs, request) ==
    IF Truthy(request.date_from) \/ Truthy(request.date_to)
    THEN SelectSeq(docs, LAMBDA doc : DateIncluded(doc, request))
    ELSE docs

\* filtered_documents before the sort
FilterDocuments(docs, request) == DateFiltered(TextFiltered(docs, request), request)

\* filters_applied: the truthy filter fields, in the order they are recorded
FiltersApplied(request) ==
    LET fields == << <<"search_term", request.search_term>>,
                     <<"filename_filter", request.filename_filter>>,
                     <<"content_type_filter", request.content_type_filter>>,
                     <<"author_filter", request.author_filter>>,
                     <<"status_filter", request.status_filter>>,
                     <<"date_from", request.date_from>>,
                     <<"date_to", request.date_to>> >>
    IN  SelectSeq(fields, LAMBDA kv : Truthy(kv[2]))


\* a sort key that is None
NoneValue == [type |-> "none"]

\* page_size and page_number defaults of "or 50" and "or 1"
DefaultPageSize == 50
DefaultPageNumber == 1

\* sort_by = search_request.sort_by or "upload_timestamp"
SortBy(request) ==
    IF Truthy(request.sort_by) THEN request.sort_by ELSE "upload_timestamp"

\* sort_order = search_request.sort_order or "desc"
SortOrder(request) ==
    IF Truthy(request.sort_order) THEN request.sort_order ELSE "desc"

\* get_sort_value(doc, sort_field)
get_sort_value(doc, sort_field) ==
    IF sort_field = "filename" THEN StrValue(Lower(doc.filename))
    ELSE IF sort_field = "upload_timestamp"
    THEN (IF doc.upload_timestamp = None THEN NoneValue
          ELSE StrValue(doc.upload_timestamp))
    ELSE IF sort_field = "pages"
    THEN NumValue(Get(doc.metadata, "pages", 0))
    ELSE StrValue(Lower(doc.filename))

\* a < b on two sort keys of one type
KeyLess(a, b) ==
    IF a.type = "str" THEN StrLess(a.str, b.str) ELSE a.num < b.num

\* list.sort compares every element of a list of two or more; a comparison
\* with None raises TypeError
SortRaises(docs, sort_field) ==
    /\ Len(docs) >= 2
    /\ \E i \in 1..Len(docs) : get_sort_value(docs[i], sort_field) = NoneValue

\* the place of x in a sorted list: behind every element that does not have
\* to follow it, which keeps equal keys in their first order
RECURSIVE InsertSorted(_, _, _, _)
InsertSorted(sorted, x, sort_field, reverse) ==
    IF sorted = <<>> THEN <<x>>
    ELSE LET kx == get_sort_value(x, sort_field)
             kh == get_sort_value(Head(sorted), sort_field)
         IN  IF (IF reverse THEN KeyLess(kh, kx) ELSE KeyLess(kx, kh))
             THEN <<x>> \o sorted
             ELSE <<Head(sorted)>>
                  \o InsertSorted(Tail(sorted), x, sort_field, reverse)

RECURSIVE SortFrom(_, _, _, _, _)
SortFrom(docs, i, sort_field, reverse, acc) ==
    IF i > Len(docs) THEN acc
    ELSE SortFrom(docs, i + 1, sort_field, reverse,
                  InsertSorted(acc, docs[i], sort_field, reverse))

\* filtered_documents.sort(key=..., reverse=(sort_order == "desc"))
SortDocuments(docs, request) ==
    SortFrom(docs, 1, SortBy(request), SortOrder(request) = "desc", <<>>)

\* page_size = search_request.page_size or 50
PageSize(request) ==
    IF request.page_size = 0 THEN DefaultPageSize ELSE request.page_size

\* page_number = search_request.page_number or 1
PageNumber(request) ==
    IF request.page_number = 0 THEN DefaultPageNumber ELSE request.page_number

\* page_count without the minimum of one page
PageCount_NoMinimum(total_count, page_size) ==
    IF total_count % page_size = 0
    THEN total_count \div page_size
    ELSE total_count \div page_size + 1

\* math.ceil(total_count / page_size) if total_count > 0 else 1
PageCount(total_count, page_size) ==
    IF total_count > 0
    THEN (IF total_count % page_size = 0
          THEN total_count \div page_size
          ELSE total_count \div page_size + 1)
    ELSE 1

\* a page that starts one document early
Paginate_Overlap(docs, page_number, page_size) ==
    LET start_idx == (page_number - 1) * page_size - 1
        end_idx == start_idx + page_size
    IN  SubSeq(docs, IF start_idx < 0 THEN 1 ELSE start_idx + 1,
               IF end_idx < Len(docs) THEN end_idx ELSE Len(docs))

\* filtered_documents[start_idx:end_idx]
Paginate(docs, page_number, page_size) ==
    LET start_idx == (page_number - 1) * page_size
        end_idx == start_idx + page_size
    IN  SubSeq(docs, start_idx + 1,
               IF end_idx < Len(docs) THEN end_idx ELSE Len(docs))

\* what search_documents returns for the sorted filtered_documents
SearchResponse(sorted, request) ==
    [documents |-> Paginate(sorted, PageNumber(request), PageSize(request)),
     total_count |-> Len(sorted),
     page_count |-> PageCount(Len(sorted), PageSize(request)),
     current_page |-> PageNumber(request),
     page_size |-> PageSize(request),
     filters_applied |-> FiltersApplied(request)]


\* DocumentSearchRequest() with the defaults of the schema; page_size and
\* page_number None are written 0, which "or" treats alike
DefaultRequest ==
    [search_term |-> None, filename_filter |-> None,
     content_type_filter |-> None, author_filter |-> None,
     date_from |-> None, date_to |-> None, status_filter |-> None,
     page_size |-> DefaultPageSize, page_number |-> DefaultPageNumber,
     sort_by |-> "upload_timestamp", sort_order |-> "desc"]

\* the request sorted by filename in ascending order, one document a page
ByName == [DefaultRequest EXCEPT !.sort_by = "filename",
                                 !.sort_order = "asc", !.page_size = 1]

SearchRequests ==
    { DefaultRequest,
      ByName,
      [ByName EXCEPT !.page_size = 2, !.sort_order = "desc"],
      [ByName EXCEPT !.page_size = 2, !.sort_order = None],
      [ByName EXCEPT !.sort_order = "DESC"],
      [ByName EXCEPT !.sort_by = "pages", !.page_size = 2],
      [ByName EXCEPT !.sort_by = "pages", !.sort_order = "desc"],
      [ByName EXCEPT !.sort_by = "size", !.page_size = 0],
      [ByName EXCEPT !.sort_by = None, !.sort_order = "asc"],
      [ByName EXCEPT !.page_number = 0, !.page_size = 2],
      [ByName EXCEPT !.page_number = 2],
      [ByName EXCEPT !.page_number = 5, !.page_size = 2],
      [ByName EXCEPT !.search_term = "INVOICE"],
      [ByName EXCEPT !.search_term = "alice"],
      [ByName EXCEPT !.search_term = "none"],
      [ByName EXCEPT !.search_term = ""],
      [ByName EXCEPT !.filename_filter = "2024"],
      [ByName EXCEPT !.content_type_filter = "PDF"],
      [ByName EXCEPT !.author_filter = "Bo"],
      [ByName EXCEPT !.author_filter = "on"],
      [ByName EXCEPT !.status_filter = "Comp"],
      [ByName EXCEPT !.status_filter = "failed"],
      [ByName EXCEPT !.search_term = "2024", !.author_filter = "b",
                     !.content_type_filter = "pdf"],
      [ByName EXCEPT !.date_from = "2024-02-01"],
      [ByName EXCEPT !.date_to = "2024-02-28"],
      [ByName EXCEPT !.date_from = "2024-01-05", !.date_to = "2024-03-01"],
      [ByName EXCEPT !.date_from = "2024-01-05T00:00:01"],
      [ByName EXCEPT !.date_to = "2024-03-01T00:00:00.000000"],
      [ByName EXCEPT !.date_from = "01/02/2024"],
      [DefaultRequest EXCEPT !.date_from = "2024-01-01", !.page_size = 2],
      [DefaultRequest EXCEPT !.date_to = "2024-12-31", !.sort_order = "asc"],
      [ByName EXCEPT !.search_term = "a", !.date_to = "2024-02-28"] }

\* the variables search_documents leaves alone
notSdVars == <<index, callVars, fltVars, citVars, thVars, docVars>>

InitSearch ==
    /\ index \in SearchIndexStates
    /\ CallIdle
    /\ FltIdle
    /\ CitIdle
    /\ ThIdle
    /\ SdIdle
    /\ DocIdle

\* one call of search_documents that returns, over the listing all_docs
SearchCall(request, all_docs) ==
    /\ sd_request' = request
    /\ sd_listing' = all_docs
    /\ \E filtered \in { FilterDocuments(all_docs, request) } :
          /\ ~SortRaises(filtered, SortBy(request))
          /\ sd_filtered_documents' = SortDocuments(filtered, request)
    /\ sd_response' = SearchResponse(sd_filtered_documents', request)
    /\ sd_pc' = "returned"

\* search_documents(search_request) returns
SearchDocuments(request) ==
    /\ sd_pc = "idle"
    /\ SearchCall(request, all_documents(index))
    /\ sd_session' = (PageNumber(request) = 1)
    /\ sd_collected' = sd_response'.documents
    /\ UNCHANGED notSdVars

\* list_all_documents fails and returns no documents; the search returns
SearchListingFails(request) ==
    /\ sd_pc = "idle"
    /\ SearchCall(request, <<>>)
    /\ sd_session' = (PageNumber(request) = 1)
    /\ sd_collected' = sd_response'.documents
    /\ UNCHANGED notSdVars

\* filtered_documents.sort raises TypeError: logged and raised again
SearchSortRaises(request) ==
    /\ sd_pc = "idle"
    /\ sd_request' = request
    /\ sd_listing' = all_documents(index)
    /\ sd_filtered_documents' = FilterDocuments(sd_listing', request)
    /\ SortRaises(sd_filtered_documents', SortBy(request))
    /\ sd_pc' = "raised"
    /\ UNCHANGED <<sd_response, sd_session, sd_collected>>
    /\ UNCHANGED notSdVars

\* the caller asks for the next page of the same request
NextPage ==
    /\ sd_pc = "returned"
    /\ sd_session
    /\ sd_response.current_page < sd_response.page_count
    /\ SearchCall([sd_request EXCEPT
                      !.page_number = sd_response.current_page + 1],
                  sd_listing)
    /\ sd_collected' = sd_collected \o sd_response'.documents
    /\ UNCHANGED sd_session
    /\ UNCHANGED notSdVars

NextSearch ==
    \/ \E request \in SearchRequests : SearchDocuments(request)
    \/ \E request \in SearchRequests : SearchListingFails(request)
    \/ \E request \in SearchRequests : SearchSortRaises(request)
    \/ NextPage

SpecSearch == InitSearch /\ [][NextSearch]_vars


\* the text of a metadata field; a field that is None has no text
FieldText(value) == IF value = None THEN "" ELSE value

\* term is a case-insensitive substring of text
Within(term, text) == Contains(Lower(text), Lower(term))

\* the document passes every filter present in the request
PassesEveryFilter(doc, request) ==
    /\ Truthy(request.search_term) =>
          \/ Within(request.search_term, doc.filename)
          \/ Within(request.search_term, FieldText(doc.metadata.title))
          \/ Within(request.search_term, FieldText(doc.metadata.author))
    /\ Truthy(request.filename_filter) =>
          Within(request.filename_filter, doc.filename)
    /\ Truthy(request.content_type_filter) =>
          Within(request.content_type_filter,
                 FieldText(doc.metadata.file_type))
    /\ Truthy(request.author_filter) =>
          Within(request.author_filter, FieldText(doc.metadata.author))
    /\ Truthy(request.status_filter) =>
          Within(request.status_filter, doc.status)
    /\ (Truthy(request.date_from) \/ Truthy(request.date_to)) =>
          DateIncluded(doc, request)

\* the documents of a list, as a set
DocSet(docs) == { docs[i] : i \in 1..Len(docs) }

\* C16 as stated: search_documents keeps exactly the documents of the listing
\* that pass every filter present in the request (search term as a
\* case-insensitive substring of filename, title or author; filename,
\* content type, author and status each as a case-insensitive substring), and
\* total_count is the number of such documents whatever the page.
C16_KeepsExactlyMatching ==
    sd_pc = "returned" =>
        /\ DocSet(sd_filtered_documents)
              = { doc \in DocSet(sd_listing) :
                     PassesEveryFilter(doc, sd_request) }
        /\ sd_response.total_count
              = Cardinality({ doc \in DocSet(sd_listing) :
                                 PassesEveryFilter(doc, sd_request) })

\* C17: for a request with page_size >= 1, page_count is the least number of
\* pages of page_size documents that hold total_count documents, and at
\* least 1: max(1, ceil(total_count / page_size)); 1 when total_count is 0.
C17_PageCount ==
    (sd_pc = "returned" /\ sd_request.page_size >= 1) =>
        LET n == sd_response.page_count
            size == sd_request.page_size
            total == sd_response.total_count
        IN  /\ n >= 1
            /\ n * size >= total
            /\ n > 1 => (n - 1) * size < total
            /\ total = 0 => n = 1
            /\ total = Len(sd_filtered_documents)

C17_Witness ==
    /\ sd_pc = "returned"
    /\ sd_request.page_size = 2
    /\ sd_response.total_count = 3
    /\ sd_response.page_count = 2

\* C18: for a fixed listing and request, the pages 1, 2, ... returned so far,
\* concatenated, are the start of the full filtered, sorted list, each page
\* holds at most page_size documents, and after page page_count the
\* concatenation is the full list, every document exactly once.
C18_PagesConcatenate ==
    (sd_pc = "returned" /\ sd_session) =>
        LET full == sd_filtered_documents
            upto == sd_response.current_page * sd_response.page_size
        IN  /\ Len(sd_response.documents) <= sd_response.page_size
            /\ sd_collected
                  = SubSeq(full, 1, IF upto < Len(full) THEN upto ELSE Len(full))
            /\ sd_response.current_page = sd_response.page_count =>
                  /\ sd_collected = full
                  /\ \A a, b \in 1..Len(sd_collected) :
                        a # b => sd_collected[a].id # sd_collected[b].id

C18_Witness ==
    /\ sd_pc = "returned"
    /\ sd_session
    /\ sd_response.page_size = 1
    /\ sd_response.page_count = 3
    /\ sd_response.current_page = 3
    /\ Len(sd_collected) = 3

\* a does not come after b in the order of the requested sort field, string
\* fields compared case-insensitively
NotAfter(a, b, sort_field) ==
    IF sort_field = "pages" THEN a.metadata.pages <= b.metadata.pages
    ELSE IF sort_field = "upload_timestamp"
    THEN ~StrLess(Lower(b.upload_timestamp), Lower(a.upload_timestamp))
    ELSE ~StrLess(Lower(b.filename), Lower(a.filename))

\* C19 as stated: the filtered documents are ordered by the requested sort
\* field (an unrecognized field sorts by filename), ascending when sort_order
\* is asc and descending otherwise, and the sort succeeds for every listing.
C19_SortedAndSortSucceeds ==
    /\ sd_pc # "raised"
    /\ sd_pc = "returned" =>
          \A i \in 1..(Len(sd_filtered_documents) - 1) :
              IF SortOrder(sd_request) = "asc"
              THEN NotAfter(sd_filtered_documents[i],
                            sd_filtered_documents[i + 1], SortBy(sd_request))
              ELSE NotAfter(sd_filtered_documents[i + 1],
                            sd_filtered_documents[i], SortBy(sd_request))

\* the request has none of the five text filters
NoTextFilter(request) ==
    /\ ~Truthy(request.search_term)
    /\ ~Truthy(request.filename_filter)
    /\ ~Truthy(request.content_type_filter)
    /\ ~Truthy(request.author_filter)
    /\ ~Truthy(request.status_filter)

\* the three formats of parse_date
DateFormats == { "%Y-%m-%dT%H:%M:%S.%f", "%Y-%m-%d", "%Y-%m-%dT%H:%M:%S" }

\* the timestamp is a text that parses under one of the three formats
Parses(timestamp) ==
    /\ timestamp # None
    /\ \E fmt \in DateFormats : strptime(timestamp, fmt) # NoDate

\* C20: when date_from or date_to is given, a document is kept if and only if
\* its upload timestamp parses under one of the three formats and the parsed
\* time is >= date_from and <= date_to for each bound given (a bound that
\* parses); a document whose timestamp does not parse is excluded whenever a
\* bound is active, and never for that reason when no bound is given.
C20_DateFilter ==
    (sd_pc = "returned" /\ NoTextFilter(sd_request)) =>
        \A i \in 1..Len(sd_listing) :
            LET doc == sd_listing[i]
                kept == InList(doc, sd_filtered_documents)
                when == parse_date(doc.upload_timestamp)
                from_date == parse_date(sd_request.date_from)
                to_date == parse_date(sd_request.date_to)
            IN  IF Truthy(sd_request.date_from) \/ Truthy(sd_request.date_to)
                THEN kept <=>
                       /\ Parses(doc.upload_timestamp)
                       /\ (Truthy(sd_request.date_from) /\ from_date # NoDate)
                             => ~DateLess(when, from_date)
                       /\ (Truthy(sd_request.date_to) /\ to_date # NoDate)
                             => ~DateLess(to_date, when)
                ELSE kept

C20_Witness ==
    /\ sd_pc = "returned"
    /\ sd_request.date_from = "2024-01-05"
    /\ sd_request.date_to = "2024-03-01"
    /\ Len(sd_listing) = 3
    /\ \E i \in 1..Len(sd_listing) : ~Parses(sd_listing[i].upload_timestamp)
    /\ Len(sd_filtered_documents) = 2
    /\ \E i \in 1..2 : sd_filtered_documents[i].upload_timestamp = "2024-01-05"
    /\ \E i \in 1..2 : sd_filtered_documents[i].upload_timestamp = "2024-03-01"

-----------------------------------------------------------------------------
(***************************************************************************)
(* Concurrent calls of one QueryEngine: a process_query or                 *)
(* process_enhanced_query call, an extract_themes call and                 *)
(* search_documents calls, each with its own locals, interleave step by    *)
(* step over one index.                                                    *)
(***************************************************************************)

\* the collections the concurrent calls are served from
ConcurrentIndexStates ==
    LET ranked == << Scored("refunds within 30 days", ChunkMetadata(DocA, 1, 0), 7),
                     Scored("memo on returns", ChunkMetadata(DocC, 3, 0), 5),
                     Scored("scanned note", ChunkMetadata(DocB, 1, 0), 3) >>
    IN  { <<>>, SubSeq(ranked, 1, 2), ranked }

\* the arguments of the concurrent calls
ConcurrentFilters ==
    { NoneList,
      SomeList(<< <<"document_ids", ListValue(<<"doc-A", "doc-C">>)>> >>) }

ConcurrentSelections == { NoneList, SomeList(<<"doc-B", "doc-C">>) }

ConcurrentThemesData ==
    { <<Theme("Refunds", <<0, 1>>), Theme("Returns", <<1>>)>>,
      <<Theme("Refunds", <<0>>), Theme("Returns", <<-4>>)>> }

ConcurrentRequests ==
    { DefaultRequest, ByName, [ByName EXCEPT !.author_filter = "Bo"] }

InitConcurrent ==
    /\ index \in ConcurrentIndexStates
    /\ CallIdle
    /\ FltIdle
    /\ CitIdle
    /\ ThIdle
    /\ SdIdle
    /\ DocIdle

\* any call that is in progress takes its next step
NextConcurrent ==
    \/ \E m \in Methods, q \in Queries, f \in ConcurrentFilters,
          selected \in ConcurrentSelections : StartQuery(m, q, f, selected)
    \/ RetrieveOk
    \/ RetrieveFail
    \/ Normalize
    \/ Restrict
    \/ Filter
    \/ EmptyResponse
    \/ \E a \in Answers : AnswerOk(a)
    \/ AnswerRaise
    \/ Cite
    \/ \E q \in Queries, f \in ConcurrentFilters :
          StartThemes("extract_themes", q, f, None)
    \/ CollectCandidates
    \/ CollectFails
    \/ EmptyThemes
    \/ \E themes_data \in ConcurrentThemesData : ExtractThemesOk(themes_data)
    \/ ExtractThemesRaise
    \/ \E iteration \in Iterations(th_candidates) : OrganizeThemes(iteration)
    \/ OrganizeRaises
    \/ \E request \in ConcurrentRequests : SearchDocuments(request)
    \/ \E request \in ConcurrentRequests : SearchListingFails(request)
    \/ \E request \in ConcurrentRequests : SearchSortRaises(request)
    \/ NextPage

SpecConcurrent == InitConcurrent /\ [][NextConcurrent]_vars

\* what the process_query / process_enhanced_query call returns when it runs
\* alone over stored, given what its collaborators did for it: whether the
\* retrieval failed, and the answer a
QueryAlone(stored, retrieval_failed, a) ==
    LET found == IF retrieval_failed THEN <<>>
                 ELSE DocsOf(similarity_search_with_score(stored, K))
        owned == IF TruthyList(selected_document_ids)
                 THEN RestrictToSelection(_convert_to_document_chunks(found),
                                          selected_document_ids)
                 ELSE _convert_to_document_chunks(found)
        kept == apply_filters(owned, filters)
    IN  IF kept = <<>>
        THEN EmptyResultResponse(query, filters, selected_document_ids)
        ELSE AnsweredResponse(query, filters, selected_document_ids, a,
                 IF method = "process_query"
                 THEN create_basic_citations(kept)
                 ELSE create_enhanced_citations(kept, <<>>),
                 kept)

\* what the extract_themes call can return when it runs alone over stored:
\* the retrieval may fail, and the call returns unless an index raises
ThemesAlone(stored) ==
    { IF cs = <<>>
      THEN EmptyThemeResponse(th_method, th_query, th_filters, th_document_id)
      ELSE OrganizedThemeResponse(th_method, th_query, th_filters,
               th_document_id, 0, cs, th_themes_data, <<>>) :
      cs \in { c \in { <<>>, Candidates(th_method, stored, th_filters,
                                        th_document_id) } :
                 c = <<>> \/ ~IndexErrorIn(c, th_themes_data) } }

\* what the last search_documents call can return when it runs alone over
\* stored: the listing may fail, and the call returns unless the sort raises
SearchAlone(stored) ==
    { SearchResponse(SortDocuments(docs, sd_request), sd_request) :
      docs \in { d \in { FilterDocuments(<<>>, sd_request),
                         FilterDocuments(all_documents(stored), sd_request) } :
                   ~SortRaises(d, SortBy(sd_request)) } }

\* C21: under every interleaving of a process_query or
\* process_enhanced_query call, an extract_themes call and search_documents
\* calls over an unchanged index, each call that returns returns a response
\* it returns when it runs alone with the same collaborator outcomes, and the
\* attributes of the engine stay as the constructor set them.
C21_ConcurrentCallsIndependent ==
    /\ engine = EngineRefs
    /\ pc = "returned" =>
          response = QueryAlone(index, "retrieval" \in failed, answer)
    /\ th_pc = "returned" => th_response \in ThemesAlone(index)
    /\ sd_pc = "returned" => sd_response \in SearchAlone(index)

\* the three calls have run side by side and each has returned passages
C21_Witness ==
    /\ pc = "returned" /\ response.citations # <<>>
    /\ th_pc = "returned" /\ th_response.themes # <<>>
    /\ sd_pc = "returned" /\ sd_response.documents # <<>>
    /\ th_llm_calls # <<>> /\ llm_calls # <<>>

-----------------------------------------------------------------------------
(* The order of the stages of process_query / process_enhanced_query *)

\* the steps of one call, as pairs of positions
StageOrder ==
    { <<"idle", "retrieve">>, <<"retrieve", "normalize">>,
      <<"normalize", "restrict">>, <<"restrict", "filter">>,
      <<"filter", "filtered">>, <<"filtered", "returned">>,
      <<"filtered", "cite">>, <<"filtered", "raised">>,
      <<"cite", "returned">> }

\* the contents of the first n passages of cs, each two separated by a
\* blank line
RECURSIVE JoinedUpTo(_, _)
JoinedUpTo(cs, n) ==
    IF n = 0 THEN ""
    ELSE IF n = 1 THEN cs[1].content
    ELSE JoinedUpTo(cs, n - 1) \o "\n\n" \o cs[n].content

\* what has been invoked so far fits the position of the call
InvocationsFitStage ==
    /\ retriever_calls = (IF pc \in {"idle", "retrieve"} THEN 0 ELSE 1)
    /\ Len(llm_calls) <= 1
    /\ llm_calls # <<>> <=> pc \in {"cite", "raised"}
                            \/ (pc = "returned" /\ filtered_chunks # <<>>)
    /\ llm_calls # <<>> =>
          /\ filtered_chunks # <<>>
          /\ filtered_chunks =
                apply_filters(
                    IF TruthyList(selected_document_ids)
                    THEN RestrictToSelection(
                             _convert_to_document_chunks(raw_results),
                             selected_document_ids)
                    ELSE _convert_to_document_chunks(raw_results),
                    filters)
          /\ llm_calls[1] =
                [query |-> query,
                 context |-> JoinedUpTo(filtered_chunks, Len(filtered_chunks))]
    /\ response # NoneRecord /\ response.citations # <<>> =>
          /\ Len(llm_calls) = 1
          /\ answer # None
          /\ "generation" \notin failed
    /\ pc = "raised" => response = NoneRecord /\ answer = None

\* C22: every step of a process_query / process_enhanced_query call moves to
\* the next stage of retrieve, normalize, restrict, filter, answer, cite; the
\* retriever is invoked once and first, the generator at most once and only
\* on a non-empty filtered set, with the surviving contents joined by a blank
\* line as context; citations exist only after the generator has returned;
\* a step never invokes a collaborator again after a failure.
C22_StagesInFixedOrder ==
    [][ /\ pc' # pc => <<pc, pc'>> \in StageOrder
        /\ retriever_calls' # retriever_calls => pc = "retrieve"
        /\ llm_calls' # llm_calls => pc = "filtered" /\ filtered_chunks # <<>>
        /\ failed # {} =>
              /\ retriever_calls' = retriever_calls
              /\ "generation" \in failed => llm_calls' = llm_calls
        /\ InvocationsFitStage' ]_vars

\* a call over several surviving passages has been answered and cited
C22_Witness ==
    /\ pc = "returned"
    /\ Len(filtered_chunks) >= 2
    /\ Len(llm_calls) = 1
    /\ Len(response.citations) = Len(filtered_chunks)

-----------------------------------------------------------------------------
(***************************************************************************)
(* Document processing: DocumentProcessor.process_document and             *)
(* delete_document, DatabaseService, VectorStoreService.index_document.    *)
(***************************************************************************)

\* batch_size of index_document
batch_size == 5

\* str.strip() leaves nothing
IsBlank(str) ==
    \A i \in 1..Len(str) : SubSeq(str, i, i) \in {" ", "\n", "\t"}

\* schemas.DocumentPage over paragraphs given as <<text, paragraph_index>>
DocumentPage(page_number, paragraphs, full_text) ==
    [page_number |-> page_number,
     paragraphs |-> [i \in 1..Len(paragraphs) |->
                        [text |-> paragraphs[i][1],
                         paragraph_index |-> paragraphs[i][2]]],
     full_text |-> full_text]

\* schemas.ProcessedDocument with the metadata of doc, under the id that
\* uuid4 gives it
ProcessedDocument(id, doc, pages, processing_status) ==
    [id |-> id, filename |-> doc.filename, author |-> doc.author,
     document_date |-> doc.document_date, document_type |-> doc.document_type,
     pages |-> pages, processing_status |-> processing_status]

\* what TextExtractor returns for the uploaded files: a page of text, a
\* scanned page without text, and two pages of seven paragraphs
Uploads ==
    { ProcessedDocument("doc-U", DocD,
          << DocumentPage(1, << <<"plan for refunds", 0>> >>,
                          "plan for refunds\n") >>, "pending"),
      ProcessedDocument("doc-V", DocB,
          << DocumentPage(1, <<>>, " \n") >>, "pending"),
      ProcessedDocument("doc-W", DocC,
          << DocumentPage(1, << <<"clause 1", 0>>, <<"clause 2", 1>>,
                                <<"clause 3", 2>>, <<"clause 4", 4>> >>,
                          "clause 1\nclause 2\nclause 3\n\nclause 4\n"),
             DocumentPage(2, << <<"clause 5", 0>>, <<"clause 6", 1>>,
                                <<"clause 7", 2>> >>,
                          "clause 5\nclause 6\nclause 7\n") >>, "pending") }

\* VectorStoreService._create_chunks from page p, paragraph q on
RECURSIVE CreateChunksFrom(_, _, _)
CreateChunksFrom(document, p, q) ==
    IF p > Len(document.pages) THEN <<>>
    ELSE IF q > Len(document.pages[p].paragraphs)
    THEN CreateChunksFrom(document, p + 1, 1)
    ELSE LET page == document.pages[p]
             paragraph == page.paragraphs[q]
         IN  (IF IsBlank(paragraph.text) THEN <<>>
              ELSE << DocumentChunk(paragraph.text,
                          ChunkMetadata(document, page.page_number,
                                        paragraph.paragraph_index), 0) >>)
             \o CreateChunksFrom(document, p, q + 1)

_create_chunks(document) == CreateChunksFrom(document, 1, 1)

\* the score the collection gives a stored passage for the query, in tenths
ScoreOf(content) ==
    CASE content = "clause 1" -> 10
      [] content = "clause 2" -> 9
      [] content = "clause 3" -> 8
      [] content = "clause 4" -> 6
      [] content = "clause 5" -> 4
      [] content = "clause 6" -> 2
      [] content = "clause 7" -> 1
      [] OTHER -> 0

\* Qdrant.add_documents(batch): the points of the batch join the ranking
RECURSIVE AddDocuments(_, _)
AddDocuments(stored, batch) ==
    IF batch = <<>> THEN stored
    ELSE LET point == Scored(batch[1].page_content, batch[1].metadata,
                             ScoreOf(batch[1].page_content))
             above == SelectSeq(stored, LAMBDA s : s.score > point.score)
             below == SelectSeq(stored, LAMBDA s : s.score <= point.score)
         IN  AddDocuments(above \o <<point>> \o below, Tail(batch))

\* DocumentProcessor._has_indexable_content
_has_indexable_content(document) ==
    /\ document.pages # <<>>
    /\ \E p \in 1..Len(document.pages) :
          LET page == document.pages[p]
          IN  \/ /\ "content" \in DOMAIN page
                 /\ page.content # None
                 /\ ~IsBlank(page.content)
              \/ /\ "text" \in DOMAIN page
                 /\ page.text # None
                 /\ ~IsBlank(page.text)

\* the collections a document is added to
DocumentIndexStates ==
    { <<>>,
      << Scored("refunds within 30 days", ChunkMetadata(DocA, 1, 0), 7),
         Scored("memo on returns", ChunkMetadata(DocC, 3, 0), 5) >> }

InitDocuments ==
    /\ index \in DocumentIndexStates
    /\ CallIdle
    /\ FltIdle
    /\ CitIdle
    /\ ThIdle
    /\ SdIdle
    /\ DocIdle

\* index_document(document) up to the batch loop, on behalf of caller: no
\* chunks, or a collection that cannot be verified, returns False
IndexCall(document, caller, collection_ok) ==
    /\ ix_pc = "idle"
    /\ ix_caller' = caller
    /\ ix_docs' = [i \in 1..Len(_create_chunks(document)) |->
                      Document(_create_chunks(document)[i].content,
                               _create_chunks(document)[i].metadata)]
    /\ ix_i' = 0
    /\ ix_success' = (ix_docs' # <<>> /\ collection_ok)
    /\ ix_pc' = IF ix_success' THEN "batches" ELSE "return"

\* a caller other than process_document invokes index_document
IndexDocument(document, collection_ok) ==
    /\ IndexCall(document, "direct", collection_ok)
    /\ UNCHANGED <<index, callVars, fltVars, citVars, thVars, sdVars, engine,
                   dpVars>>

\* one pass of the batch loop: add_documents(langchain_docs[i:i+batch_size])
AddBatch ==
    /\ ix_pc = "batches"
    /\ index' = AddDocuments(index,
                    SubSeq(ix_docs, ix_i + 1,
                           IF ix_i + batch_size < Len(ix_docs)
                           THEN ix_i + batch_size ELSE Len(ix_docs)))
    /\ ix_i' = ix_i + batch_size
    /\ ix_pc' = IF ix_i' < Len(ix_docs) THEN "batches" ELSE "return"
    /\ UNCHANGED <<ix_caller, ix_docs, ix_success>>
    /\ UNCHANGED <<callVars, fltVars, citVars, thVars, sdVars, engine, dpVars>>

\* add_documents raises: success = False and the loop is left
BatchFails ==
    /\ ix_pc = "batches"
    /\ ix_success' = FALSE
    /\ ix_pc' = "return"
    /\ UNCHANGED <<ix_caller, ix_docs, ix_i>>
    /\ UNCHANGED <<index, callVars, fltVars, citVars, thVars, sdVars, engine,
                   dpVars>>

\* return success; process_document sets the status from it
IndexReturns ==
    /\ ix_pc = "return"
    /\ ix_pc' = "done"
    /\ IF ix_caller = "process_document"
       THEN /\ dp_document' =
                 [dp_document EXCEPT !.processing_status =
                      IF ix_success THEN "indexed" ELSE "indexing_failed"]
            /\ dp_pc' = "final_save"
       ELSE UNCHANGED <<dp_document, dp_pc>>
    /\ UNCHANGED <<ix_caller, ix_docs, ix_i, ix_success>>
    /\ UNCHANGED <<store, dp_attempted, dp_deleted>>
    /\ UNCHANGED <<index, callVars, fltVars, citVars, thVars, sdVars, engine>>

\* process_document: text and metadata are extracted, the id is drawn
ProcessDocument(upload) ==
    /\ dp_pc = "idle"
    /\ upload.id \notin DOMAIN store
    /\ dp_document' = [upload EXCEPT !.processing_status = "processed"]
    /\ dp_pc' = "save"
    /\ UNCHANGED <<store, dp_attempted, dp_deleted>>
    /\ UNCHANGED <<index, callVars, fltVars, citVars, thVars, sdVars, engine,
                   ixVars>>

\* process_document: the extractor raises ValueError, raised again
ExtractRaises ==
    /\ dp_pc = "idle"
    /\ dp_pc' = "raised"
    /\ UNCHANGED <<store, dp_document, dp_attempted, dp_deleted>>
    /\ UNCHANGED <<index, callVars, fltVars, citVars, thVars, sdVars, engine,
                   ixVars>>

\* DatabaseService.save_document: the file of the document is written
save_document(stored, document) ==
    [id \in DOMAIN stored \cup {document.id} |->
        IF id = document.id THEN document.processing_status ELSE stored[id]]

\* if not self.database.save_document(document): the save succeeds
SaveFirst ==
    /\ dp_pc = "save"
    /\ store' = save_document(store, dp_document)
    /\ dp_pc' = "check"
    /\ UNCHANGED <<dp_document, dp_attempted, dp_deleted>>
    /\ UNCHANGED <<index, callVars, fltVars, citVars, thVars, sdVars, engine,
                   ixVars>>

\* the first save returns False: raise Exception("Failed to save ...")
SaveFirstFails ==
    /\ dp_pc = "save"
    /\ dp_pc' = "raised"
    /\ UNCHANGED <<store, dp_document, dp_attempted, dp_deleted>>
    /\ UNCHANGED <<index, callVars, fltVars, citVars, thVars, sdVars, engine,
                   ixVars>>

\* if self._has_indexable_content(document): index_document is invoked,
\* else the status is indexing_failed
TryIndexing ==
    /\ dp_pc = "check"
    /\ IF _has_indexable_content(dp_document)
       THEN /\ IndexCall(dp_document, "process_document", TRUE)
            /\ dp_attempted' = TRUE
            /\ dp_pc' = "indexing"
            /\ UNCHANGED dp_document
       ELSE /\ dp_document' =
                 [dp_document EXCEPT !.processing_status = "indexing_failed"]
            /\ dp_pc' = "final_save"
            /\ UNCHANGED <<dp_attempted, ixVars>>
    /\ UNCHANGED <<store, dp_deleted>>
    /\ UNCHANGED <<index, callVars, fltVars, citVars, thVars, sdVars, engine>>

\* self.database.save_document(document) succeeds; return document
SaveFinal ==
    /\ dp_pc = "final_save"
    /\ store' = save_document(store, dp_document)
    /\ dp_pc' = "returned"
    /\ UNCHANGED <<dp_document, dp_attempted, dp_deleted>>
    /\ UNCHANGED <<index, callVars, fltVars, citVars, thVars, sdVars, engine,
                   ixVars>>

\* the final save returns False, which is not looked at; return document
SaveFinalFails ==
    /\ dp_pc = "final_save"
    /\ dp_pc' = "returned"
    /\ UNCHANGED <<store, dp_document, dp_attempted, dp_deleted>>
    /\ UNCHANGED <<index, callVars, fltVars, citVars, thVars, sdVars, engine,
                   ixVars>>

\* DocumentProcessor.delete_document(document_id): the file of the document
\* is unlinked and True returned, or there is no file and False returned
DeleteDocument(document_id) ==
    /\ IF document_id \in DOMAIN store
       THEN /\ store' = [id \in DOMAIN store \ {document_id} |-> store[id]]
            /\ dp_deleted' = dp_deleted \cup {document_id}
       ELSE UNCHANGED <<store, dp_deleted>>
    /\ UNCHANGED <<dp_pc, dp_document, dp_attempted>>
    /\ UNCHANGED <<index, callVars, fltVars, citVars, thVars, sdVars, engine,
                   ixVars>>

\* the allow-lists of the queries that run beside the indexing
DocumentSelections == { NoneList, SomeList(<<"doc-W">>) }

NextDocuments ==
    \/ \E upload \in Uploads : ProcessDocument(upload)
    \/ ExtractRaises
    \/ SaveFirst
    \/ SaveFirstFails
    \/ TryIndexing
    \/ SaveFinal
    \/ SaveFinalFails
    \/ \E document \in Uploads, collection_ok \in BOOLEAN :
          IndexDocument(document, collection_ok)
    \/ AddBatch
    \/ BatchFails
    \/ IndexReturns
    \/ \E document \in Uploads : DeleteDocument(document.id)
    \/ \E q \in Queries, selected \in DocumentSelections :
          StartQuery("process_query", q, NoneList, selected)
    \/ RetrieveOk
    \/ RetrieveFail
    \/ Normalize
    \/ Restrict
    \/ Filter
    \/ EmptyResponse
    \/ \E a \in Answers : AnswerOk(a)
    \/ AnswerRaise
    \/ Cite

SpecDocuments == InitDocuments /\ [][NextDocuments]_vars

\* a step of the query that no collaborator failure is needed for
QueryStep ==
    \/ RetrieveOk
    \/ Normalize
    \/ Restrict
    \/ Filter
    \/ EmptyResponse
    \/ \E a \in Answers : AnswerOk(a)
    \/ Cite

\* the passages of document_id among results
PassagesOf(results, document_id) ==
    SelectSeq(results, LAMBDA r :
                  Get(r.doc.metadata, "doc_id", None) = document_id)

\* C23: while index_document adds a document batch by batch, a query that
\* retrieves gets the best K passages the index holds at that step, whatever
\* part of the document is in it; the response it returns is the one these
\* passages give, also when the index has changed since; a query in progress
\* can always take its next step and so can the indexing, whatever the
\* position of the other.
C23_QueryToleratesIndexing ==
    [][ /\ (pc = "retrieve" /\ pc' = "normalize" /\ "retrieval" \notin failed')
            => scored_results' = similarity_search_with_score(index, K)
        /\ (pc = "returned" =>
              response = QueryAlone(scored_results, "retrieval" \in failed,
                                    answer))'
        /\ pc \in {"retrieve", "normalize", "restrict", "filter", "filtered",
                   "cite"} => ENABLED QueryStep
        /\ ix_pc = "batches" => ENABLED AddBatch
        /\ ix_pc = "return" => ENABLED IndexReturns ]_vars

\* a query retrieved when the first batch of the seven passages was in the
\* index, the second batch failed, and the query returned citing the first
C23_Witness ==
    /\ pc = "returned"
    /\ Len(PassagesOf(scored_results, "doc-W")) = batch_size
    /\ Len(response.citations) >= batch_size
    /\ ix_pc = "done"
    /\ ~ix_success
    /\ Len(ix_docs) > batch_size

-----------------------------------------------------------------------------
(* Enhanced citations: the builder invoked with scored results, and as    *)
(* process_enhanced_query invokes it                                       *)

\* the arguments of a direct call of the builder are drawn, or the index of
\* a query engine is
InitEnhanced == InitCitation \/ Init

\* one call at a time: the builder is invoked directly, or the engine runs
\* a call and invokes the builder itself
NextEnhanced ==
    \/ pc = "idle" /\ NextCitation
    \/ CitIdle /\ Next

SpecEnhanced == InitEnhanced /\ [][NextEnhanced]_vars

\* citation is the enhanced citation of chunk whose provenance is that of
\* the scored result, or absent when there is none
IsEnhancedOf(citation, chunk, scored) ==
    /\ DOMAIN citation = DOMAIN create_basic_citations(<<chunk>>)[1]
                         \cup {"embedding_info"}
    /\ \A f \in DOMAIN create_basic_citations(<<chunk>>)[1] :
          citation[f] = create_basic_citations(<<chunk>>)[1][f]
    /\ citation.embedding_info =
          IF scored = <<>> THEN NoneRecord
          ELSE [vector_id |-> ToString(scored[1].id),
                similarity_score |-> scored[1].score,
                dimension |-> 768,
                model_name |-> "embedding-model"]

\* C25: create_enhanced_citations returns one citation per passage, in
\* order, with the fields of the basic citation; citation i has the
\* provenance of scored result i when there is one and none otherwise; the
\* citations of a process_enhanced_query response have no provenance.
C25_ProvenanceIsPositional ==
    /\ cit_kind = "enhanced" =>
          /\ Len(cit_result) = Len(cit_chunks)
          /\ \A i \in 1..Len(cit_chunks) :
                IsEnhancedOf(cit_result[i], cit_chunks[i],
                             IF i <= Len(cit_vector_results)
                             THEN <<cit_vector_results[i]>> ELSE <<>>)
    /\ (pc = "returned" /\ method = "process_enhanced_query"
                        /\ filtered_chunks # <<>>) =>
          /\ Len(response.citations) = Len(filtered_chunks)
          /\ \A i \in 1..Len(filtered_chunks) :
                IsEnhancedOf(response.citations[i], filtered_chunks[i], <<>>)

\* two passages and one scored result: the first citation has provenance,
\* the second has none
C25_Witness ==
    /\ cit_kind = "enhanced"
    /\ Len(cit_chunks) = 2
    /\ Len(cit_vector_results) = 1
    /\ cit_result[1].embedding_info # NoneRecord
    /\ cit_result[2].embedding_info = NoneRecord

\* process_enhanced_query answered from two passages, neither citation with
\* provenance
C25_EngineWitness ==
    /\ pc = "returned"
    /\ method = "process_enhanced_query"
    /\ Len(filtered_chunks) = 2
    /\ Len(response.citations) = 2

-----------------------------------------------------------------------------
(* Deletion                                                               *)

\* C26: when delete_document(id) returns true the document is gone from
\* all systems: the document store has no entry for it, the listing served
\* from the vector index has no entry for it, and a retrieval from the
\* vector index returns no passage of it.
C26_DeletedFromAllSystems ==
    [][ \A id \in dp_deleted' \ dp_deleted :
           /\ id \notin DOMAIN store'
           /\ ~InList(id, DocumentIds(index'))
           /\ PassagesOf(similarity_search_with_score(index', K), id) = <<>>
      ]_vars

-----------------------------------------------------------------------------
(* The indexing decision of process_document                               *)

\* some extracted page of the document has non-blank text
HasPageText(document) ==
    \E p \in 1..Len(document.pages) : ~IsBlank(document.pages[p].full_text)

\* C27: process_document attempts index_document exactly when some
\* extracted page has non-blank text; the document then ends indexed when
\* the vector store accepts it, and only a document without pages or with
\* blank pages only skips indexing and ends indexing_failed.
C27_IndexedWhenPagesHaveText ==
    /\ dp_pc \in {"indexing", "final_save", "returned"} =>
          (dp_attempted <=> HasPageText(dp_document))
    /\ (dp_pc \in {"final_save", "returned"} /\ dp_attempted /\ ix_success) =>
          dp_document.processing_status = "indexed"
    /\ (dp_pc \in {"final_save", "returned"} /\ ~dp_attempted) =>
          /\ dp_document.processing_status = "indexing_failed"
          /\ ~HasPageText(dp_document)

-----------------------------------------------------------------------------
(* The status process_document persists                                    *)

\* C29: when process_document returns a document (that nobody deleted in
\* between), the status the document store holds for it is the status of
\* the returned document, indexed or indexing_failed and never processed;
\* the first save precedes every indexing attempt, and when it fails the
\* call fails with nothing indexed.
C29_StoredStatusIsFinalStatus ==
    [][ /\ (dp_pc # "returned" /\ dp_pc' = "returned"
                               /\ dp_document'.id \notin dp_deleted') =>
              /\ dp_document'.id \in DOMAIN store'
              /\ store'[dp_document'.id] = dp_document'.processing_status
              /\ store'[dp_document'.id] \in {"indexed", "indexing_failed"}
        /\ (dp_pc = "save" /\ dp_pc' = "raised") =>
              /\ ~dp_attempted'
              /\ index' = index
              /\ store' = store
        /\ (~dp_attempted /\ dp_attempted') =>
              dp_document.id \in DOMAIN store \cup dp_deleted
      ]_vars

-----------------------------------------------------------------------------
(* Supporting-document lists                                               *)

\* C28: a theme's supporting-document list is deduplicated in
\* extract_all_themes only: there it holds each doc_id at most once; in
\* extract_themes it has one entry per listed index in 0..len(candidates)-1,
\* in the listed order, the owner of the candidate at that index; in
\* extract_themes_for_document it is exactly [document_id].
C28_DedupOnlyCorpusWide ==
    (th_pc = "returned" /\ th_candidates # <<>>) =>
        \A t \in 1..Len(th_themes_data) :
           LastOfName(th_themes_data, t) =>
             LET name == Get(th_themes_data[t], "theme_name", "")
                 listed == InRange(th_themes_data[t], Len(th_candidates))
                 docs == DictGet(th_response.supporting_documents, name)
             IN  /\ th_method = "extract_all_themes" =>
                      \A a, b \in 1..Len(docs) : a # b => docs[a] # docs[b]
                 /\ th_method = "extract_themes" =>
                      /\ Len(docs) = Len(listed)
                      /\ \A i \in 1..Len(listed) :
                            docs[i] = Get(th_candidates[listed[i] + 1].metadata,
                                          "doc_id", "Unknown")
                 /\ th_method = "extract_themes_for_document" =>
                      docs = <<th_document_id>>

-----------------------------------------------------------------------------
(* The empty allow-list                                                    *)

\* C30: with selected_document_ids = [] process_query and
\* process_enhanced_query do what they do without an allow-list: the
\* selection step drops no passage, the empty-result message has no
\* selected-documents annotation and documents_searched is "all", not 0
\* (the metadata echo the [] they were given); with a non-empty allow-list
\* of N ids documents_searched is N.
C30_EmptyAllowListIsNoAllowList ==
    /\ (pc \in {"filter", "filtered", "cite", "returned"}
           /\ ~TruthyList(selected_document_ids)) =>
          chunks = _convert_to_document_chunks(raw_results)
    /\ (pc = "returned" /\ ~TruthyList(selected_document_ids)) =>
          LET kept == apply_filters(_convert_to_document_chunks(raw_results),
                                    filters)
          IN  /\ filtered_chunks = kept
              /\ IF kept = <<>>
                 THEN /\ response.answers =
                           <<"No relevant documents found matching the criteria.">>
                      /\ response.citations = <<>>
                      /\ response.metadata =
                           [query |-> query,
                            filters |-> filters,
                            selected_document_ids |-> selected_document_ids,
                            total_results |-> 0]
                 ELSE /\ response.answers = <<answer>>
                      /\ Len(response.citations) = Len(kept)
                      /\ response.metadata =
                           [query |-> query,
                            filters |-> filters,
                            selected_document_ids |-> selected_document_ids,
                            total_results |-> Len(kept),
                            documents_searched |-> StrValue("all")]
    /\ (pc = "returned" /\ TruthyList(selected_document_ids)
                        /\ filtered_chunks # <<>>) =>
          response.metadata.documents_searched =
              NumValue(Len(selected_document_ids.items))

\* a call with [] answered from two passages of different documents, which
\* any allow-list of one document would have cut
C30_Witness ==
    /\ pc = "returned"
    /\ selected_document_ids = SomeList(<<>>)
    /\ Len(filtered_chunks) = 2
    /\ Get(filtered_chunks[1].metadata, "doc_id", None)
          # Get(filtered_chunks[2].metadata, "doc_id", None)
    /\ response.metadata.documents_searched = StrValue("all")

====
